---- MODULE Spec2Model ----
(***************************************************************************)
(* State-machine model of the QQ channel connector:                        *)
(*   - QQApiClient.getAccessToken      (api/client.ts, src/unnamed/part_001)*)
(*   - QQChannelRuntime                (runtime.ts,    src/unnamed/part_001)*)
(*   - gateway.startAccount + its stop handle (src/src/channel.ts)         *)
(* Node's reactor is modelled as one atomic action per macrotask: a        *)
(* handler runs from the event that wakes it up to its next real           *)
(* suspension (a fetch in flight, a timer, the end of the handler).        *)
(* Every handler is an operator from a state record to a state record, so  *)
(* that handlers call each other as the code does.                         *)
(***************************************************************************)
EXTENDS Bags, FiniteSets, Integers, Sequences, TLC

\* null / undefined for the nullable numeric fields
NULL == 0 - 1

(*************************** bounds of the model ***************************)
\* runtime instances ever constructed
MaxInstances == 2
\* work pending at one time: fetches in flight, setTimeout timers, and sockets
\* still open that no this.ws references any more
MaxPending == 2
\* clock ticks
MaxTicks == 3

\* account ids handed to startAccount
Accounts == {"default"}
\* connectionMode values of an account's configuration ("" is unset)
Modes == {"", "websocket", "webhook"}
\* access_token values the issuance endpoint hands out
Tokens == {1, 2}
\* expires_in values (seconds) of the issuance endpoint
ExpiresIn == {60, 120}
\* one clock tick, in ms
TickMs == 30 * 1000
\* session_start_limit.remaining values of gateway discovery; NULL: no limit sent
Remaining == {NULL, 0, 5}
\* session_start_limit.reset_after values
ResetAfter == {1000}
\* heartbeat_interval values of Hello
HeartbeatIntervals == {41250}
\* session ids of READY
SessionIds == {1}
\* sequence numbers a frame carries
Seqs == {1}
\* close codes the peer (or the socket library) reports
CloseCodes == {1006, 4004}
\* code units a bot secret is made of: a, b, e-acute, and the two halves of U+1F600
SecretUnits == {97, 98, 233, 55357, 56832}
\* length of the bot secrets tried
MaxSecretLen == 3
\* setImmediate callbacks of the webhook server pending at one time
MaxImmediates == 1
\* event_ts / X-Signature-Timestamp values and plain_token values (strings)
Timestamps == {<<49>>, <<49, 50>>}
PlainTokens == {<<97>>, <<50, 97>>}

(************************* program constants *******************************)
maxReconnectAttempts == 5
baseReconnectDelay == 5000
FATAL_CLOSE_CODES == {4004, 4010, 4011, 4012, 4013, 4014, 4903}

OpDispatch == 0
OpHeartbeat == 1
OpIdentify == 2
OpReconnect == 7
OpInvalidSession == 9
OpHello == 10
OpHeartbeatAck == 11

VARIABLES
  runtimes,           \* the QQChannelRuntime objects constructed so far (a sequence)
  clients,            \* the QQApiClient objects constructed so far (a sequence)
  cachedAccessToken,  \* runtime.ts module variable
  activeRuntimes,     \* channel.ts Map accountId -> runtime (NULL: no entry)
  apiClients,         \* channel.ts Map accountId -> client  (NULL: no entry)
  handles,            \* stop handles startAccount has returned: the instance each call made
  timers,             \* pending setTimeout callbacks (a bag)
  intervals,          \* active setInterval timers (a bag)
  calls,              \* fetches in flight with the continuation awaiting them (a bag)
  clock,              \* Date.now()
  emitted,            \* what the last handler did to the outside, in order
  history,            \* per runtime: what has happened to it (not program state)
  webhook,            \* the WebhookServer: listener, setImmediate queue, last exchange
  probe,              \* arguments and results of the signature.ts functions applied
  watch               \* the kinds of outside effect that are recorded in emitted

vars == <<runtimes, clients, cachedAccessToken, activeRuntimes, apiClients,
          handles, timers, intervals, calls, clock, emitted, history, webhook, probe, watch>>

Cur ==
  [runtimes |-> runtimes, clients |-> clients, cachedAccessToken |-> cachedAccessToken,
   activeRuntimes |-> activeRuntimes, apiClients |-> apiClients, handles |-> handles,
   timers |-> timers, intervals |-> intervals, calls |-> calls, clock |-> clock,
   emitted |-> emitted, history |-> history, webhook |-> webhook, probe |-> probe,
   watch |-> watch]

\* a handler starts with nothing emitted
Begin == [Cur EXCEPT !.emitted = <<>>]

Ev(ev, i, what, n) == [ev |-> ev, i |-> i, what |-> what, n |-> n]
Emit(s, e) == IF e.ev \in s.watch THEN [s EXCEPT !.emitted = Append(@, e)] ELSE s

One(x) == SetToBag({x})
\* a socket that can still raise events: connecting, open, closing after it was open,
\* or closing with its handshake aborted (no frame arrives on such a socket)
LiveStates == {"CONNECTING", "OPEN", "CLOSING", "ABORTED"}

Closing(st) == IF st = "CONNECTING" THEN "ABORTED" ELSE IF st = "OPEN" THEN "CLOSING" ELSE st

(***************************************************************************)
(* QQApiClient                                                             *)
(***************************************************************************)
NewClient == [accessToken |-> NULL, tokenExpiresAt |-> 0]

\* TokenFresh with the 60 s margin compared by >= instead of >
TokenFresh_AtMargin(s, c, forceRefresh) ==
  /\ ~forceRefresh
  /\ s.clients[c].accessToken # NULL
  /\ s.clients[c].tokenExpiresAt >= s.clock + 60 * 1000

\* getAccessToken's test for returning the cached token
TokenFresh(s, c, forceRefresh) ==
  /\ ~forceRefresh
  /\ s.clients[c].accessToken # NULL
  /\ s.clients[c].tokenExpiresAt > s.clock + 60 * 1000

\* getAccessToken past the cache test: now is captured, the fetch goes out and the
\* caller k (of instance i) awaits it
FetchToken(s, k, i, c, top) ==
  [s EXCEPT !.calls = @ (+) One([k |-> k, i |-> i, c |-> c, now |-> s.clock, top |-> top])]

\* getAccessToken after a good response
StoreToken(s, call, access_token, expires_in) ==
  [s EXCEPT !.clients[call.c] =
     [accessToken |-> access_token, tokenExpiresAt |-> call.now + expires_in * 1000]]

\* request() for GET /gateway/bot: the token first, then the fetch
FetchGateway(s, i, c, top) ==
  [s EXCEPT !.calls = @ (+) One([k |-> "start.gw", i |-> i, c |-> c, now |-> s.clock, top |-> top])]

GetGateway(s, i, top) ==
  LET c == s.runtimes[i].apiClient
  IN IF TokenFresh(s, c, FALSE)
     THEN FetchGateway(s, i, c, top)
     ELSE FetchToken(s, "start.gw.token", i, c, top)

(***************************************************************************)
(* QQChannelRuntime                                                        *)
(***************************************************************************)
\* fatalClose: a close with a fatal code has reached the instance
\* gaveUp: 'Max reconnect attempts reached' was reported and no READY came since
\* seen: the sequence number of the last frame that carried one since the socket was
\*       dialed (NULL: none yet)
\* refreshed: the token the last forced refresh of reconnect() obtained (NULL: none)
NewHistory == [fatalClose |-> FALSE, gaveUp |-> FALSE, seen |-> NULL, refreshed |-> NULL]

\* what a failed refresh obtains
NoToken == 0

\* seen and refreshed are kept where the specification watches "history"
Note(s, i, field, value) ==
  IF "history" \in s.watch THEN [s EXCEPT !.history[i][field] = value] ELSE s

NewRuntime(accountId, client) ==
  [accountId |-> accountId, apiClient |-> client,
   ws |-> "NULL", orphans |-> EmptyBag,
   heartbeatInterval |-> NULL, lastSequence |-> NULL, sessionId |-> NULL,
   reconnectAttempts |-> 0, isClosing |-> FALSE, isFatalError |-> FALSE]

\* the start() that startAccount awaits has returned: startAccount returns the handle
FinishStart(s, i, top) ==
  IF top THEN Emit([s EXCEPT !.handles = @ \cup {i}], Ev("return", i, "handle", i)) ELSE s

StopHeartbeat(s, i) ==
  LET h == s.runtimes[i].heartbeatInterval
  IN IF h # NULL
     THEN [s EXCEPT !.intervals = @ (-) One([i |-> i, ms |-> h]),
                    !.runtimes[i].heartbeatInterval = NULL]
     ELSE s

\* StartHeartbeat without the call of stopHeartbeat
StartHeartbeat_NoStop(s, i, interval) ==
  [s EXCEPT !.intervals = @ (+) One([i |-> i, ms |-> interval]),
            !.runtimes[i].heartbeatInterval = interval]

StartHeartbeat(s, i, interval) ==
  LET s1 == StopHeartbeat(s, i)
  IN [s1 EXCEPT !.intervals = @ (+) One([i |-> i, ms |-> interval]),
                !.runtimes[i].heartbeatInterval = interval]

\* send(): only on an open this.ws
Send(s, i, what, n) ==
  IF s.runtimes[i].ws = "OPEN" THEN Emit(s, Ev("send", i, what, n)) ELSE s

SendIdentify(s, i) == Send(s, i, "identify", s.cachedAccessToken)

HandleHello(s, i, heartbeat_interval) ==
  SendIdentify(StartHeartbeat(s, i, heartbeat_interval), i)

\* HandleReady without the reset of reconnectAttempts
HandleReady_KeepAttempts(s, i, session_id) ==
  Emit([s EXCEPT !.runtimes[i].sessionId = session_id,
                 !.history[i].gaveUp = FALSE],
       Ev("onReady", i, "ready", session_id))

HandleReady(s, i, session_id) ==
  Emit([s EXCEPT !.runtimes[i].sessionId = session_id,
                 !.runtimes[i].reconnectAttempts = 0,
                 !.history[i].gaveUp = FALSE],
       Ev("onReady", i, "ready", session_id))

HandleDispatch(s, i, eventType, data) ==
  CASE eventType = "READY" -> HandleReady(s, i, data)
    [] eventType = "AT_MESSAGE_CREATE" -> Emit(s, Ev("onMessage", i, "channel", data))
    [] eventType = "DIRECT_MESSAGE_CREATE" -> Emit(s, Ev("onMessage", i, "direct", data))
    [] OTHER -> s

\* if (this.ws) { this.ws.close(); this.ws = null; }
\* close() on a socket that is not closed yet starts the closing handshake; the
\* socket lives on, unreferenced, until its close event
CloseWs(s, i) ==
  LET w == s.runtimes[i].ws
  IN IF w \in LiveStates
     THEN [s EXCEPT !.runtimes[i].orphans = @ (+) One(Closing(w)), !.runtimes[i].ws = "NULL"]
     ELSE [s EXCEPT !.runtimes[i].ws = "NULL"]

\* this.ws = new WebSocket(wsUrl); this.setupWebSocketHandlers();
OpenSocket(s, i) ==
  LET w == s.runtimes[i].ws
      s1 == IF w \in LiveStates THEN [s EXCEPT !.runtimes[i].orphans = @ (+) One(w)] ELSE s
  IN Note([s1 EXCEPT !.runtimes[i].ws = "CONNECTING"], i, "seen", NULL)

\* getAccessToken(true) of reconnect(): always a fetch
RefreshToken(s, i) == FetchToken(s, "reconnect.token", i, s.runtimes[i].apiClient, FALSE)

\* reconnect() up to its await
Reconnect(s, i) == RefreshToken(CloseWs(StopHeartbeat(s, i), i), i)

\* ScheduleReconnect without the test of the budget
ScheduleReconnect_NoBudget(s, i) ==
  LET r == s.runtimes[i]
      attempts == r.reconnectAttempts + 1
      delay == baseReconnectDelay * 2 ^ (attempts - 1)
      cappedDelay == IF delay < 300000 THEN delay ELSE 300000
  IN IF r.isClosing \/ r.isFatalError THEN s
     ELSE [s EXCEPT !.runtimes[i].reconnectAttempts = attempts,
                    !.timers = @ (+) One([k |-> "reconnect", i |-> i, delay |-> cappedDelay])]

\* ScheduleReconnect with the delay growing linearly: baseReconnectDelay * attempts
ScheduleReconnect_Linear(s, i) ==
  LET r == s.runtimes[i]
      attempts == r.reconnectAttempts + 1
      delay == baseReconnectDelay * attempts
  IN IF r.isClosing \/ r.isFatalError THEN s
     ELSE IF r.reconnectAttempts >= maxReconnectAttempts
     THEN Emit([s EXCEPT !.history[i].gaveUp = TRUE], Ev("onError", i, "max", 0))
     ELSE [s EXCEPT !.runtimes[i].reconnectAttempts = attempts,
                    !.timers = @ (+) One([k |-> "reconnect", i |-> i, delay |-> delay])]

ScheduleReconnect(s, i) ==
  LET r == s.runtimes[i]
      attempts == r.reconnectAttempts + 1
      delay == baseReconnectDelay * 2 ^ (attempts - 1)
      cappedDelay == IF delay < 300000 THEN delay ELSE 300000
  IN IF r.isClosing \/ r.isFatalError THEN s
     ELSE IF r.reconnectAttempts >= maxReconnectAttempts
     THEN Emit([s EXCEPT !.history[i].gaveUp = TRUE], Ev("onError", i, "max", 0))
     ELSE [s EXCEPT !.runtimes[i].reconnectAttempts = attempts,
                    !.timers = @ (+) One([k |-> "reconnect", i |-> i, delay |-> cappedDelay])]

\* start() up to its first suspension
Start(s, i, top) ==
  LET s0 == IF s.runtimes[i].reconnectAttempts = 0
            THEN [s EXCEPT !.runtimes[i].isFatalError = FALSE] ELSE s
      c == s.runtimes[i].apiClient
  IN IF TokenFresh(s0, c, FALSE)
     THEN GetGateway([s0 EXCEPT !.cachedAccessToken = s0.clients[c].accessToken], i, top)
     ELSE FetchToken(s0, "start.token", i, c, top)

\* StartFailed without the call of scheduleReconnect
StartFailed_NoRetry(s, i, top) ==
  FinishStart(Emit(s, Ev("onError", i, "start", 0)), i, top)

\* start(): the catch block
StartFailed(s, i, top) ==
  FinishStart(ScheduleReconnect(Emit(s, Ev("onError", i, "start", 0)), i), i, top)

\* StartConnect without the test of session_start_limit.remaining
StartConnect_Dial(s, i, top, remaining, reset_after) ==
  FinishStart(OpenSocket(s, i), i, top)

\* start() after the gateway answered
StartConnect(s, i, top, remaining, reset_after) ==
  IF remaining = 0
  THEN FinishStart(Emit([s EXCEPT !.runtimes[i].isFatalError = TRUE],
                        Ev("onError", i, "quota", s.clock + reset_after)), i, top)
  ELSE FinishStart(OpenSocket(s, i), i, top)

Stop(s, i) ==
  LET s1 == CloseWs(StopHeartbeat([s EXCEPT !.runtimes[i].isClosing = TRUE], i), i)
  IN [s1 EXCEPT !.runtimes[i].sessionId = NULL,
                !.runtimes[i].lastSequence = NULL,
                !.runtimes[i].reconnectAttempts = 0]

\* the 'close' handler
OnClose(s, i, code) ==
  LET s1 == StopHeartbeat(s, i)
  IN IF code \in FATAL_CLOSE_CODES
     THEN Emit([s1 EXCEPT !.runtimes[i].isFatalError = TRUE, !.history[i].fatalClose = TRUE],
               Ev("onError", i, "fatal", code))
     ELSE IF ~s1.runtimes[i].isClosing /\ ~s1.runtimes[i].isFatalError
     THEN ScheduleReconnect(s1, i)
     ELSE s1

\* the 'error' handler
OnError(s, i) == Emit(s, Ev("onError", i, "socket", 0))

HandlePayload(s, i, payload) ==
  LET s1 == IF payload.s # NULL
            THEN Note([s EXCEPT !.runtimes[i].lastSequence = payload.s], i, "seen", payload.s)
            ELSE s
  IN CASE payload.op = OpHello -> HandleHello(s1, i, payload.d)
       [] payload.op = OpDispatch -> HandleDispatch(s1, i, payload.t, payload.d)
       [] payload.op = OpHeartbeatAck -> s1
       [] payload.op = OpReconnect -> Reconnect(s1, i)
       [] payload.op = OpInvalidSession ->
            [s1 EXCEPT !.runtimes[i].sessionId = NULL,
                       !.timers = @ (+) One([k |-> "invalidSession", i |-> i, delay |-> 1000])]
       [] OTHER -> s1

\* the event types a frame text can name, by the unit that names them
FrameTypes == <<"", "READY", "AT_MESSAGE_CREATE", "DIRECT_MESSAGE_CREATE", "RESUMED">>

\* JSON.parse(data.toString()) of the message handler: a frame text is the four units
\* <<op, s, t, d>>; the text null parses to null; any other text is no JSON
ParseFrame(data) ==
  IF Len(data) = 4
  THEN [json |-> "object", op |-> data[1], s |-> data[2], t |-> FrameTypes[data[3]], d |-> data[4]]
  ELSE [json |-> IF data = <<110>> THEN "null" ELSE "SyntaxError",
        op |-> NULL, s |-> NULL, t |-> "", d |-> 0]

\* FrameFailed with a catch block that schedules a reconnect
FrameFailed_Reconnect(s, i) ==
  ScheduleReconnect(Emit(s, Ev("console.error", i, "parse", 0)), i)

\* the catch block of the message handler
FrameFailed(s, i) == Emit(s, Ev("console.error", i, "parse", 0))

\* the 'message' handler: JSON.parse throws a SyntaxError, or handlePayload throws a
\* TypeError reading null.s
OnMessage(s, i, data) ==
  LET payload == ParseFrame(data)
  IN IF payload.json = "object"
     THEN HandlePayload(s, i, [op |-> payload.op, s |-> payload.s, t |-> payload.t, d |-> payload.d])
     ELSE FrameFailed(s, i)

\* the setTimeout callback of scheduleReconnect
ReconnectTimeout(s, i) ==
  IF ~s.runtimes[i].isClosing /\ ~s.runtimes[i].isFatalError THEN Reconnect(s, i) ELSE s

\* the setTimeout callback of the InvalidSession case
InvalidSessionTimeout(s, i) ==
  IF ~s.runtimes[i].isClosing /\ ~s.runtimes[i].isFatalError THEN ScheduleReconnect(s, i) ELSE s

\* the setInterval callback of startHeartbeat
HeartbeatTimeout(s, i) == Send(s, i, "heartbeat", s.runtimes[i].lastSequence)

(***************************************************************************)
(* channel.ts: gateway.startAccount and the stop handle it returns         *)
(***************************************************************************)
\* getOrCreateApiClient
GetOrCreateApiClient(s, accountId) ==
  IF s.apiClients[accountId] # NULL THEN s
  ELSE [s EXCEPT !.clients = Append(@, NewClient),
                 !.apiClients[accountId] = Len(s.clients) + 1]

\* StartAccountCall without the activeRuntimes.has(accountId) test
StartAccountCall_NoCheck(s, accountId, configured, mode) ==
  LET s0 == Emit(s, Ev("startAccount", 0, mode, 0))
  IN IF ~configured
     THEN Emit(s0, Ev("return", 0, "throw", 0))
     ELSE LET s1 == GetOrCreateApiClient(s0, accountId)
              i == Len(s1.runtimes) + 1
              s2 == [s1 EXCEPT !.runtimes = Append(@, NewRuntime(accountId, s1.apiClients[accountId])),
                               !.history = Append(@, NewHistory),
                               !.activeRuntimes[accountId] = i]
          IN Start(Emit(s2, Ev("construct", i, "QQChannelRuntime", 0)), i, TRUE)

StartAccountCall(s, accountId, configured, mode) ==
  LET s0 == Emit(s, Ev("startAccount", 0, mode, 0))
  IN IF s0.activeRuntimes[accountId] # NULL
     THEN Emit(s0, Ev("return", 0, "null", 0))
     ELSE IF ~configured
     THEN Emit(s0, Ev("return", 0, "throw", 0))
     ELSE LET s1 == GetOrCreateApiClient(s0, accountId)
              i == Len(s1.runtimes) + 1
              s2 == [s1 EXCEPT !.runtimes = Append(@, NewRuntime(accountId, s1.apiClients[accountId])),
                               !.history = Append(@, NewHistory),
                               !.activeRuntimes[accountId] = i]
          IN Start(Emit(s2, Ev("construct", i, "QQChannelRuntime", 0)), i, TRUE)

\* the async closure startAccount returns
StopHandleCall(s, accountId) ==
  LET rt == s.activeRuntimes[accountId]
  IN IF rt # NULL
     THEN [Stop(s, rt) EXCEPT !.activeRuntimes[accountId] = NULL, !.apiClients[accountId] = NULL]
     ELSE s

(***************************************************************************)
(* webhook/signature.ts                                                    *)
(* A string is the sequence of its UTF-16 code units, a Uint8Array the     *)
(* sequence of its bytes, a hex string the sequence of its digits          *)
(* (0..15, and 16 for a character that is no hex digit).                   *)
(***************************************************************************)
\* what a call that throws evaluates to
THROWN == <<0 - 1>>

IsHighSurrogate(u) == u >= 55296 /\ u <= 56319
IsLowSurrogate(u) == u >= 56320 /\ u <= 57343

\* UTF-8 of one code point
Utf8Of(cp) ==
  IF cp < 128 THEN <<cp>>
  ELSE IF cp < 2048 THEN <<192 + (cp \div 64), 128 + (cp % 64)>>
  ELSE IF cp < 65536 THEN <<224 + (cp \div 4096), 128 + ((cp \div 64) % 64), 128 + (cp % 64)>>
  ELSE <<240 + (cp \div 262144), 128 + ((cp \div 4096) % 64), 128 + ((cp \div 64) % 64), 128 + (cp % 64)>>

\* new TextEncoder().encode(str): a surrogate pair is one code point, a lone
\* surrogate is encoded as U+FFFD
RECURSIVE TextEncode(_)
TextEncode(str) ==
  IF str = <<>> THEN <<>>
  ELSE IF Len(str) >= 2 /\ IsHighSurrogate(str[1]) /\ IsLowSurrogate(str[2])
  THEN Utf8Of(65536 + (str[1] - 55296) * 1024 + (str[2] - 56320)) \o TextEncode(SubSeq(str, 3, Len(str)))
  ELSE IF IsHighSurrogate(str[1]) \/ IsLowSurrogate(str[1])
  THEN Utf8Of(65533) \o TextEncode(Tail(str))
  ELSE Utf8Of(str[1]) \o TextEncode(Tail(str))

\* while (seed.length < 32) seed = seed + seed
RECURSIVE Doubled(_)
Doubled(seed) == IF Len(seed) < 32 THEN Doubled(seed \o seed) ELSE seed

deriveSeed(botSecret) == TextEncode(SubSeq(Doubled(botSecret), 1, 32))

getPrivateKey(botSecret) == deriveSeed(botSecret)

\* @noble/ed25519, as an ideal signature scheme over 32-byte keys: the public
\* key names the private key, a signature names the key and the message, and a
\* key of another length is refused
EdGetPublicKey(privateKey) ==
  IF Len(privateKey) # 32 THEN THROWN
  ELSE [n \in 1..32 |-> (privateKey[n] + 1) % 256]

EdSign(messageBytes, privateKey) ==
  IF Len(privateKey) # 32 THEN THROWN
  ELSE EdGetPublicKey(privateKey) \o messageBytes

EdVerify(signatureBytes, messageBytes, publicKey) ==
  signatureBytes = publicKey \o messageBytes

getPublicKey(botSecret) == EdGetPublicKey(getPrivateKey(botSecret))

\* parseInt(two characters, 16): NaN (stored as 0) when the first is no digit, the
\* first digit alone when the second is none
ParseHexPair(d1, d2) ==
  IF d1 > 15 THEN 0 ELSE IF d2 > 15 THEN d1 ELSE 16 * d1 + d2

hexToBytes(hex) ==
  [n \in 1..(Len(hex) \div 2) |-> ParseHexPair(hex[2 * n - 1], hex[2 * n])]

bytesToHex(bytes) ==
  [n \in 1..(2 * Len(bytes)) |->
     IF n % 2 = 1 THEN (bytes[(n + 1) \div 2]) \div 16 ELSE (bytes[n \div 2]) % 16]

verifySignature(signature, timestamp, body, botSecret) ==
  LET messageBytes == TextEncode(timestamp \o body)
      signatureBytes == hexToBytes(signature)
      publicKey == getPublicKey(botSecret)
  IN IF publicKey = THROWN THEN FALSE
     ELSE EdVerify(signatureBytes, messageBytes, publicKey)

signCallbackResponse(eventTs, plainToken, botSecret) ==
  LET messageBytes == TextEncode(eventTs \o plainToken)
      signature == EdSign(messageBytes, getPrivateKey(botSecret))
  IN IF signature = THROWN THEN THROWN ELSE bytesToHex(signature)

(***************************************************************************)
(* webhook/server.ts and webhook/handler.ts                                *)
(* A request target is the sequence of its tokens ("/", "?", names), a raw *)
(* body the sequence of its code units. Bodies come from a fixed-width     *)
(* notation: five units <<op, t, d, x, y>> are an object with the members  *)
(* op, t (0: none) and d (0: none, else an object with x as id /           *)
(* plain_token and y as event_ts, 0: member missing); the one unit 110 is  *)
(* the text null; every other body is no JSON.                             *)
(***************************************************************************)
\* this.config.path || '/webhook'
expectedPath == <<"/", "webhook">>

\* this.config.appSecret
appSecret == <<97, 98>>

NoResponse == [status |-> 0, text |-> "", plain_token |-> <<>>, signature |-> <<>>]

\* no WebhookServer constructed
NoWebhook ==
  [server |-> "NULL", immediates |-> EmptyBag, step |-> "none", request |-> <<>>,
   response |-> NoResponse, exception |-> "", ran |-> <<>>]

RECURSIVE SkipSlashes(_)
SkipSlashes(url) == IF url # <<>> /\ Head(url) = "/" THEN SkipSlashes(Tail(url)) ELSE url

RECURSIVE BeforeQuery(_)
BeforeQuery(url) ==
  IF url = <<>> \/ Head(url) = "?" THEN <<>> ELSE <<Head(url)>> \o BeforeQuery(Tail(url))

RECURSIVE FromSlash(_)
FromSlash(url) == IF url = <<>> \/ Head(url) = "/" THEN url ELSE FromSlash(Tail(url))

\* a target starting with two slashes names a host first
NamesHost(url) == Len(url) >= 2 /\ url[1] = "/" /\ url[2] = "/"

\* new URL(req.url, base) succeeds: it throws for a target that names an empty host
UrlParses(url) ==
  NamesHost(url) => (SkipSlashes(url) # <<>> /\ Head(SkipSlashes(url)) # "?")

\* new URL(req.url, base).pathname
Pathname(url) ==
  LET path == IF NamesHost(url) THEN FromSlash(BeforeQuery(SkipSlashes(url)))
              ELSE BeforeQuery(url)
  IN IF path = <<>> THEN <<"/">> ELSE path

\* payload.t of the body notation
EventTypeOf(t) ==
  CASE t = 0 -> ""
    [] t = 1 -> "AT_MESSAGE_CREATE"
    [] t = 2 -> "DIRECT_MESSAGE_CREATE"
    [] t = 3 -> "MESSAGE_CREATE"
    [] OTHER -> "GUILD_CREATE"

\* JSON.parse(body)
JsonParse(body) ==
  IF Len(body) = 5
  THEN [json |-> "object", op |-> body[1], t |-> EventTypeOf(body[2]),
        d |-> IF body[3] = 0 THEN "undefined" ELSE "object",
        id |-> body[4],
        plain_token |-> IF body[3] = 0 \/ body[4] = 0 THEN <<>> ELSE <<body[4]>>,
        event_ts |-> IF body[3] = 0 \/ body[5] = 0 THEN <<>> ELSE <<body[5]>>]
  ELSE [json |-> IF body = <<110>> THEN "null" ELSE "SyntaxError", op |-> 0, t |-> "",
        d |-> "undefined", id |-> 0, plain_token |-> <<>>, event_ts |-> <<>>]

\* an exception leaves the function that runs
Throw(s, error) == [s EXCEPT !.webhook.exception = error]

\* an exception nothing catches: the process exits, or an 'uncaughtException'
\* listener of the embedding process keeps it running
Uncaught(s, outcome) ==
  IF outcome = "exit"
  THEN [s EXCEPT !.webhook.server = "DOWN", !.webhook.immediates = EmptyBag]
  ELSE s

\* res.writeHead(status); res.end(JSON.stringify({error | message: text}))
Respond(s, status, text) ==
  Emit([s EXCEPT !.webhook.response = [NoResponse EXCEPT !.status = status, !.text = text]],
       Ev("respond", 0, text, status))

\* processRequest: payload = JSON.parse(body) has thrown, no catch block around it
ParseFailed_Uncaught(s) == Throw(s, "SyntaxError")

\* processRequest: the catch block of payload = JSON.parse(body)
ParseFailed(s) == Respond(s, 400, "Invalid JSON")

\* Verified with the result of verifySignature ignored
Verified_Ignored(req) == TRUE

\* processRequest: verifySignature(signature, timestamp, body, this.config.appSecret)
Verified(req) ==
  verifySignature(req.signature, req.timestamp, req.body, appSecret)

handleURLValidation(s, payload) ==
  LET s1 == Emit(s, Ev("handleURLValidation", 0, "", 0))
  IN IF payload.d = "undefined" THEN Throw(s1, "TypeError")
     ELSE IF payload.plain_token = <<>> \/ payload.event_ts = <<>>
     THEN Respond(s1, 400, "Missing plain_token or event_ts")
     ELSE LET signature == signCallbackResponse(payload.event_ts, payload.plain_token, appSecret)
          IN IF signature = THROWN THEN Throw(s1, "Error")
             ELSE Emit([s1 EXCEPT !.webhook.response =
                                     [status |-> 200, text |-> "",
                                      plain_token |-> payload.plain_token,
                                      signature |-> signature]],
                       Ev("respond", 0, "", 200))

\* handleDispatch without the test of the event type
handleDispatch_NoTypeTest(s, payload, verified) ==
  LET s1 == Emit(s, Ev("handleDispatch", 0, payload.t, 0))
      job == [eventType |-> payload.t, d |-> payload.d, id |-> payload.id,
              verified |-> verified, answered |-> 200]
  IN Emit([Respond(s1, 200, "ok") EXCEPT !.webhook.immediates = @ (+) One(job)],
          Ev("setImmediate", 0, payload.t, 0))

\* verified (not program state): the signature of the request was checked and good
handleDispatch(s, payload, verified) ==
  LET s1 == Emit(s, Ev("handleDispatch", 0, payload.t, 0))
      job == [eventType |-> payload.t, d |-> payload.d, id |-> payload.id,
              verified |-> verified, answered |-> 200]
  IN IF payload.t = "" THEN Respond(s1, 200, "ok")
     ELSE Emit([Respond(s1, 200, "ok") EXCEPT !.webhook.immediates = @ (+) One(job)],
               Ev("setImmediate", 0, payload.t, 0))

\* processRequest past the signature check
Accepted(s, payload, verified) ==
  IF payload.op = 0 THEN handleDispatch(s, payload, verified) ELSE Respond(s, 200, "ok")

\* processRequest: the try block
processRequest_Try(s, req) ==
  LET payload == JsonParse(req.body)
      s1 == Emit(s, Ev("JSON.parse", 0, "", 0))
  IN IF payload.json = "SyntaxError" THEN ParseFailed(s1)
     ELSE IF payload.json = "null" THEN Throw(s1, "TypeError")
     ELSE IF payload.op = 13 THEN handleURLValidation(s1, payload)
     ELSE IF req.signature # <<>> /\ req.timestamp # <<>>
     THEN LET s2 == Emit(s1, Ev("verifySignature", 0, "", 0))
          IN IF ~Verified(req) THEN Respond(s2, 401, "Invalid signature")
             ELSE Accepted(s2, payload, TRUE)
     ELSE Accepted(s1, payload, FALSE)

processRequest(s, req) ==
  LET r == processRequest_Try(s, req)
  IN IF r.webhook.exception # "" THEN Respond(r, 500, "Internal server error") ELSE r

\* handleRequest and, for a POST to the path, the 'end' callback of the body
handleRequest(s, req, outcome) ==
  LET s1 == [s EXCEPT !.webhook.step = "request", !.webhook.request = req,
                      !.webhook.response = NoResponse, !.webhook.exception = "",
                      !.webhook.ran = <<>>]
  IN IF ~UrlParses(req.url) THEN Uncaught(Throw(s1, "TypeError"), outcome)
     ELSE IF req.method # "POST" \/ Pathname(req.url) # expectedPath
     THEN Respond(s1, 404, "Not found")
     ELSE processRequest(s1, req)

\* handleAtMessage / handleDirectMessage; throws: config.onMessage throws
handleMessage(s, job, isDirect, throws) ==
  IF job.d = "undefined" THEN Throw(s, "TypeError")
  ELSE LET s1 == Emit(s, Ev("onMessage", 0, IF isDirect THEN "direct" ELSE "channel", job.id))
       IN IF throws THEN Throw(s1, "Error") ELSE s1

handleEvent(s, job, throws) ==
  LET s1 == Emit(s, Ev("handleEvent", 0, job.eventType, 0))
  IN CASE job.eventType \in {"AT_MESSAGE_CREATE", "MESSAGE_CREATE"} ->
            handleMessage(s1, job, FALSE, throws)
       [] job.eventType = "DIRECT_MESSAGE_CREATE" -> handleMessage(s1, job, TRUE, throws)
       [] OTHER -> s1

\* the setImmediate callback of handleDispatch
RunImmediate(s, job, throws, outcome) ==
  LET s1 == [s EXCEPT !.webhook.step = "immediate", !.webhook.exception = "",
                      !.webhook.ran = job, !.webhook.request = <<>>,
                      !.webhook.response = NoResponse,
                      !.webhook.immediates = @ (-) One(job)]
      r == handleEvent(s1, job, throws)
  IN IF r.webhook.exception # "" THEN Uncaught(r, outcome) ELSE r

(***************************************************************************)
(* The reactor: one action per event                                       *)
(***************************************************************************)
RECURSIVE OrphanCount(_, _)
OrphanCount(s, n) ==
  IF n = 0 THEN 0 ELSE BagCardinality(s.runtimes[n].orphans) + OrphanCount(s, n - 1)

Within(s) ==
  /\ Len(s.runtimes) <= MaxInstances
  /\ BagCardinality(s.calls) + BagCardinality(s.timers) + OrphanCount(s, Len(s.runtimes)) <= MaxPending
  /\ BagCardinality(s.intervals) <= MaxInstances + 1
  /\ BagCardinality(s.webhook.immediates) <= MaxImmediates

Commit(s) ==
  /\ Within(s)
  /\ runtimes' = s.runtimes
  /\ clients' = s.clients
  /\ cachedAccessToken' = s.cachedAccessToken
  /\ activeRuntimes' = s.activeRuntimes
  /\ apiClients' = s.apiClients
  /\ handles' = s.handles
  /\ timers' = s.timers
  /\ intervals' = s.intervals
  /\ calls' = s.calls
  /\ clock' = s.clock
  /\ emitted' = s.emitted
  /\ history' = s.history
  /\ webhook' = s.webhook
  /\ probe' = s.probe
  /\ watch' = s.watch

\* the sockets of instance i that can still raise events: the one this.ws references
\* and the ones it no longer does
Sockets(i) ==
  {<<"ws", st>> : st \in {runtimes[i].ws} \cap LiveStates}
    \cup {<<"orphan", st>> : st \in BagToSet(runtimes[i].orphans)}

SetSocket(s, i, src, st) ==
  IF src[1] = "ws"
  THEN [s EXCEPT !.runtimes[i].ws = st]
  ELSE [s EXCEPT !.runtimes[i].orphans =
          (@ (-) One(src[2])) (+) (IF st = "CLOSED" THEN EmptyBag ELSE One(st))]

Payloads ==
  [op : {OpHello}, s : {NULL}, t : {""}, d : HeartbeatIntervals]
    \cup [op : {OpDispatch}, s : Seqs, t : {"READY"}, d : SessionIds]
    \cup [op : {OpDispatch}, s : Seqs,
          t : {"AT_MESSAGE_CREATE", "DIRECT_MESSAGE_CREATE"}, d : {0}]
    \cup [op : {OpReconnect, OpInvalidSession}, s : {NULL}, t : {""}, d : {0}]

TokenCalls == {"start.token", "start.gw.token", "reconnect.token", "api.token"}

StartAccount(accountId, configured, mode) ==
  Commit(StartAccountCall(Begin, accountId, configured, mode))

StopHandle(h) ==
  Commit(StopHandleCall(Begin, runtimes[h].accountId))

\* the issuance endpoint answers 200
TokenGranted(call, access_token, expires_in) ==
  /\ call.k \in TokenCalls
  /\ LET s1 == StoreToken([Begin EXCEPT !.calls = @ (-) One(call)], call, access_token, expires_in)
         s2 == s1
     IN Commit(CASE call.k = "start.token" ->
                      GetGateway([s2 EXCEPT !.cachedAccessToken = access_token], call.i, call.top)
                 [] call.k = "start.gw.token" -> FetchGateway(s2, call.i, call.c, call.top)
                 [] call.k = "reconnect.token" ->
                      Start(Note([s2 EXCEPT !.cachedAccessToken = access_token],
                                 call.i, "refreshed", access_token), call.i, FALSE)
                 [] call.k = "api.token" -> Emit(s2, Ev("return", call.i, "token", access_token)))

\* the issuance endpoint answers an error status, or the fetch fails
TokenRejected(call) ==
  /\ call.k \in TokenCalls
  /\ LET s1 == [Begin EXCEPT !.calls = @ (-) One(call)]
     IN Commit(CASE call.k \in {"start.token", "start.gw.token"} -> StartFailed(s1, call.i, call.top)
                 [] call.k = "reconnect.token" ->
                      Start(Note(s1, call.i, "refreshed", NoToken), call.i, FALSE)
                 [] call.k = "api.token" -> Emit(s1, Ev("return", call.i, "throw", 0)))

GatewayAnswered(call, remaining, reset_after) ==
  /\ call.k = "start.gw"
  /\ LET s1 == [Begin EXCEPT !.calls = @ (-) One(call)]
     IN Commit(StartConnect(s1, call.i, call.top, remaining, reset_after))

GatewayFailed(call) ==
  /\ call.k = "start.gw"
  /\ LET s1 == [Begin EXCEPT !.calls = @ (-) One(call)]
     IN Commit(StartFailed(s1, call.i, call.top))

SocketOpen(i, src) ==
  /\ src[2] = "CONNECTING"
  /\ Commit(SetSocket(Begin, i, src, "OPEN"))

\* a frame arrives; the library delivers frames until the close event, also on a
\* socket the program has asked to close
SocketMessage(i, src, payload) ==
  /\ src[2] \in {"OPEN", "CLOSING"}
  /\ Commit(HandlePayload(Begin, i, payload))

\* a frame arrives as text
SocketFrame(i, src, data) ==
  /\ src[2] \in {"OPEN", "CLOSING"}
  /\ Commit(OnMessage(Begin, i, data))

\* the 'error' event; the socket's close event follows it
SocketError(i, src) ==
  /\ src[2] \in {"CONNECTING", "OPEN"}
  /\ Commit(OnError(SetSocket(Begin, i, src, Closing(src[2])), i))

SocketClose(i, src, code) ==
  Commit(OnClose(SetSocket(Begin, i, src, "CLOSED"), i, code))

ReconnectTimer(t) ==
  /\ t.k = "reconnect"
  /\ Commit(ReconnectTimeout([Begin EXCEPT !.timers = @ (-) One(t)], t.i))

InvalidSessionTimer(t) ==
  /\ t.k = "invalidSession"
  /\ Commit(InvalidSessionTimeout([Begin EXCEPT !.timers = @ (-) One(t)], t.i))

HeartbeatTick(t) ==
  Commit(HeartbeatTimeout(Begin, t.i))

\* a caller outside the runtime (request() of an outbound send) asks for the token
GetAccessToken(c, forceRefresh) ==
  Commit(LET s == Begin
         IN IF TokenFresh(s, c, forceRefresh)
            THEN Emit(s, Ev("return", 0, "token", s.clients[c].accessToken))
            ELSE FetchToken(s, "api.token", 0, c, FALSE))

Tick ==
  /\ clock < MaxTicks * TickMs
  /\ Commit([Begin EXCEPT !.clock = @ + TickMs])

\* http.createServer(...).listen(): start()
WebhookStart ==
  /\ webhook.server = "NULL"
  /\ Commit([Begin EXCEPT !.webhook = [NoWebhook EXCEPT !.server = "LISTENING", !.step = "start",
                                                    !.immediates = webhook.immediates]])

\* server.close(): stop(); callbacks already queued still run
WebhookStop ==
  /\ webhook.server = "LISTENING"
  /\ Commit([Begin EXCEPT !.webhook = [NoWebhook EXCEPT !.step = "stop",
                                                    !.immediates = webhook.immediates]])

Request(req, outcome) ==
  /\ webhook.server = "LISTENING"
  /\ Commit(handleRequest(Begin, req, outcome))

Immediate(job, throws, outcome) ==
  /\ webhook.server # "DOWN"
  /\ BagIn(job, webhook.immediates)
  /\ Commit(RunImmediate(Begin, job, throws, outcome))

\* every kind of outside effect a handler has
Effects == {"startAccount", "construct", "return", "onError", "onReady", "onMessage", "send"}

\* no account started
NoAccounts ==
  /\ runtimes = <<>>
  /\ clients = <<>>
  /\ cachedAccessToken = NULL
  /\ activeRuntimes = [a \in Accounts |-> NULL]
  /\ apiClients = [a \in Accounts |-> NULL]
  /\ handles = {}
  /\ timers = EmptyBag
  /\ intervals = EmptyBag
  /\ calls = EmptyBag
  /\ clock = 0
  /\ emitted = <<>>
  /\ history = <<>>

\* nothing constructed yet
Empty == NoAccounts /\ webhook = NoWebhook /\ probe = <<>>

(***************************************************************************)
(* SpecRuntime: one account started once, its socket runtime against the   *)
(* frames, close codes and answers of the platform, and the stop handle.   *)
(***************************************************************************)
RuntimePayloads ==
  {p \in Payloads : p.t # "DIRECT_MESSAGE_CREATE"}

InitRuntime == Empty /\ watch = {"onError", "onReady", "onMessage"}

NextRuntime ==
  \/ \E a \in Accounts : Len(runtimes) = 0 /\ StartAccount(a, TRUE, "websocket")
  \/ \E h \in handles : StopHandle(h)
  \/ \E call \in BagToSet(calls), e \in ExpiresIn : TokenGranted(call, 1, e)
  \/ \E call \in BagToSet(calls) : TokenRejected(call)
  \/ \E call \in BagToSet(calls), r \in Remaining, ra \in ResetAfter : GatewayAnswered(call, r, ra)
  \/ \E call \in BagToSet(calls) : GatewayFailed(call)
  \/ \E i \in DOMAIN runtimes : \E src \in Sockets(i) : SocketOpen(i, src)
  \/ \E i \in DOMAIN runtimes : \E src \in Sockets(i), p \in RuntimePayloads : SocketMessage(i, src, p)
  \/ \E i \in DOMAIN runtimes : \E src \in Sockets(i) : SocketError(i, src)
  \/ \E i \in DOMAIN runtimes : \E src \in Sockets(i), code \in CloseCodes : SocketClose(i, src, code)
  \/ \E t \in BagToSet(timers) : ReconnectTimer(t)
  \/ \E t \in BagToSet(timers) : InvalidSessionTimer(t)
  \/ \E t \in BagToSet(intervals) : HeartbeatTick(t)

SpecRuntime == InitRuntime /\ [][NextRuntime]_vars

(***************************************************************************)
(* SpecStart: SpecRuntime cut down to what start() and the reconnect       *)
(* scheduler see: answers of the token and gateway endpoints, Hello, READY,*)
(* Reconnect and InvalidSession frames, closes, timers, the stop handle.   *)
(***************************************************************************)
InitStart == Empty /\ watch = {"onError"}

StartPayloads ==
  {p \in Payloads : p.op \in {OpHello, OpReconnect, OpInvalidSession} \/ p.t = "READY"}

NextStart ==
  \/ \E a \in Accounts : Len(runtimes) = 0 /\ StartAccount(a, TRUE, "websocket")
  \/ \E h \in handles : StopHandle(h)
  \/ \E call \in BagToSet(calls), e \in ExpiresIn : TokenGranted(call, 1, e)
  \/ \E call \in BagToSet(calls) : TokenRejected(call)
  \/ \E call \in BagToSet(calls), r \in Remaining, ra \in ResetAfter : GatewayAnswered(call, r, ra)
  \/ \E call \in BagToSet(calls) : GatewayFailed(call)
  \/ \E i \in DOMAIN runtimes : \E src \in Sockets(i) : SocketOpen(i, src)
  \/ \E i \in DOMAIN runtimes : \E src \in Sockets(i), p \in StartPayloads : SocketMessage(i, src, p)
  \/ \E i \in DOMAIN runtimes : \E src \in Sockets(i), code \in CloseCodes : SocketClose(i, src, code)
  \/ \E t \in BagToSet(timers) : ReconnectTimer(t)
  \/ \E t \in BagToSet(timers) : InvalidSessionTimer(t)

SpecStart == InitStart /\ [][NextStart]_vars

(***************************************************************************)
(* SpecAccounts: startAccount and the stop handle alone, called at every   *)
(* moment of an instance's start, reconnects and stop.                     *)
(***************************************************************************)
InitAccounts == Empty /\ watch = {"startAccount", "construct", "return"}

NextAccounts ==
  \/ \E a \in Accounts, configured \in BOOLEAN, mode \in Modes : StartAccount(a, configured, mode)
  \/ \E h \in handles : StopHandle(h)
  \/ \E call \in BagToSet(calls) : TokenGranted(call, 1, 120)
  \/ \E call \in BagToSet(calls) : TokenRejected(call)
  \/ \E call \in BagToSet(calls) : GatewayAnswered(call, 5, 1000)
  \/ \E i \in DOMAIN runtimes : \E src \in Sockets(i) : SocketClose(i, src, 1006)
  \/ \E t \in BagToSet(timers) : ReconnectTimer(t)

SpecAccounts == InitAccounts /\ [][NextAccounts]_vars

(***************************************************************************)
(* SpecSupervisor: startAccount and the stop handles it returns, for one   *)
(* account started, stopped and started again, each instance connecting,   *)
(* losing its socket, reconnecting and becoming ready.                     *)
(***************************************************************************)
InitSupervisor ==
  Empty /\ watch = {"startAccount", "construct", "return", "onReady", "onMessage"}

SupervisorPayloads ==
  {p \in Payloads : p.op = OpHello \/ p.t = "READY"}

NextSupervisor ==
  \/ \E a \in Accounts, configured \in BOOLEAN, mode \in Modes : StartAccount(a, configured, mode)
  \/ \E h \in handles : StopHandle(h)
  \/ \E call \in BagToSet(calls) : TokenGranted(call, 1, 120)
  \/ \E call \in BagToSet(calls) : TokenRejected(call)
  \/ \E call \in BagToSet(calls) : GatewayAnswered(call, 5, 1000)
  \/ \E i \in DOMAIN runtimes : \E src \in Sockets(i) : SocketOpen(i, src)
  \/ \E i \in DOMAIN runtimes : \E src \in Sockets(i), p \in SupervisorPayloads : SocketMessage(i, src, p)
  \/ \E i \in DOMAIN runtimes : \E src \in Sockets(i) : SocketClose(i, src, 1006)
  \/ \E t \in BagToSet(timers) : ReconnectTimer(t)

SpecSupervisor == InitSupervisor /\ [][NextSupervisor]_vars

(***************************************************************************)
(* SpecClient: one QQApiClient, callers asking for the token while time    *)
(* passes and the issuance endpoint answers or fails.                      *)
(***************************************************************************)
InitClient ==
  /\ runtimes = <<>>
  /\ clients = <<NewClient>>
  /\ cachedAccessToken = NULL
  /\ activeRuntimes = [a \in Accounts |-> NULL]
  /\ apiClients = [a \in Accounts |-> 1]
  /\ handles = {}
  /\ timers = EmptyBag
  /\ intervals = EmptyBag
  /\ calls = EmptyBag
  /\ clock = 0
  /\ emitted = <<>>
  /\ history = <<>>
  /\ webhook = NoWebhook
  /\ probe = <<>>
  /\ watch = {"return"}

NextClient ==
  \/ \E forceRefresh \in BOOLEAN : GetAccessToken(1, forceRefresh)
  \/ \E call \in BagToSet(calls), tok \in Tokens, e \in ExpiresIn : TokenGranted(call, tok, e)
  \/ \E call \in BagToSet(calls) : TokenRejected(call)
  \/ Tick

SpecClient == InitClient /\ [][NextClient]_vars

(***************************************************************************)
(* SpecSignature: the functions of webhook/signature.ts applied to a bot   *)
(* secret, a timestamp and a token.                                        *)
(***************************************************************************)
Secrets == UNION {[1..n -> SecretUnits] : n \in 1..MaxSecretLen}

\* hex strings handed to verifySignature besides the one signCallbackResponse made
OtherSignatures == {<<>>, <<16, 1, 10>>}

DeriveSeed ==
  Commit([Begin EXCEPT !.probe.f = "deriveSeed",
                       !.probe.result = deriveSeed(probe.botSecret)])

SignCallbackResponse ==
  Commit([Begin EXCEPT !.probe.f = "signCallbackResponse",
                       !.probe.result = signCallbackResponse(probe.eventTs, probe.plainToken,
                                                             probe.botSecret)])

VerifySignature(signature) ==
  Commit([Begin EXCEPT !.probe.f = "verifySignature",
                       !.probe.signature = signature,
                       !.probe.result = verifySignature(signature, probe.eventTs,
                                                        probe.plainToken, probe.botSecret)])

InitSignature ==
  /\ NoAccounts
  /\ webhook = NoWebhook
  /\ probe \in [botSecret : Secrets, eventTs : Timestamps, plainToken : PlainTokens,
                  f : {"none"}, signature : {<<>>}, result : {<<>>}]
  /\ watch = {}

NextSignature ==
  \/ DeriveSeed
  \/ SignCallbackResponse
  \/ \E sig \in OtherSignatures \cup
                (IF probe.f = "signCallbackResponse" /\ probe.result # THROWN
                 THEN {probe.result} ELSE {}) : VerifySignature(sig)

SpecSignature == InitSignature /\ [][NextSignature]_vars

(***************************************************************************)
(* SpecWebhook: the WebhookServer with requests arriving and its           *)
(* setImmediate callbacks running.                                         *)
(***************************************************************************)
\* the X-Signature-Timestamp value of signed requests
Timestamp == <<49>>

\* an X-Signature-Ed25519 value that is no signature
Garbage == <<16, 1, 10>>

\* the signature the platform makes of a request: hex of sign(timestamp + body)
\* under the key of the bot secret
PlatformSignature(timestamp, body) ==
  bytesToHex(EdSign(TextEncode(timestamp \o body), deriveSeed(appSecret)))

\* op 0: without event type, AT_MESSAGE_CREATE with and without d, DIRECT_MESSAGE_CREATE,
\* MESSAGE_CREATE, an event type the handler ignores; op 11
DispatchBodies ==
  {<<0, 0, 1, 7, 0>>, <<0, 1, 1, 7, 0>>, <<0, 1, 0, 0, 0>>, <<0, 2, 1, 7, 0>>,
   <<0, 3, 1, 7, 0>>, <<0, 4, 1, 7, 0>>, <<11, 0, 0, 0, 0>>}

\* the AT_MESSAGE_CREATE body with its id changed after signing
Signed == <<0, 1, 1, 7, 0>>
Tampered == <<0, 1, 1, 8, 0>>

\* op 13: complete, plain_token missing, event_ts missing, d missing
ValidationBodies ==
  {<<13, 0, 1, 97, 49>>, <<13, 0, 1, 0, 49>>, <<13, 0, 1, 97, 0>>, <<13, 0, 0, 0, 0>>}

\* no JSON (empty, "{"), and the text null
OtherBodies == {<<>>, <<123>>, <<110>>}

Post(body, signature, timestamp) ==
  [method |-> "POST", url |-> expectedPath, signature |-> signature,
   timestamp |-> timestamp, body |-> body]

\* method and target of the requests that are no POST to the path, and of a POST to
\* the path with a query
Routes ==
  {<<"GET", <<"/", "webhook">>>>, <<"POST", <<"/", "other">>>>,
   <<"POST", <<"/", "webhook", "/">>>>, <<"POST", <<"/", "webhook", "?", "x">>>>,
   <<"GET", <<"/", "/">>>>, <<"POST", <<"/", "/">>>>}

\* the header pairs tried with a body: none, garbage with and without a timestamp,
\* and the platform's
Headers(body) ==
  {<<<<>>, <<>>>>, <<Garbage, <<>>>>, <<Garbage, Timestamp>>,
   <<PlatformSignature(Timestamp, body), Timestamp>>}

Requests ==
  UNION {{Post(b, h[1], h[2]) : h \in Headers(b)} : b \in DispatchBodies \cup ValidationBodies}
    \cup {Post(Tampered, PlatformSignature(Timestamp, Signed), Timestamp)}
    \cup {Post(b, h[1], h[2]) : b \in OtherBodies, h \in {<<<<>>, <<>>>>, <<Garbage, Timestamp>>}}
    \cup {[Post(Signed, PlatformSignature(Timestamp, Signed), Timestamp)
              EXCEPT !.method = r[1], !.url = r[2]] : r \in Routes}

WebhookEffects ==
  {"JSON.parse", "verifySignature", "handleURLValidation", "handleDispatch", "respond",
   "setImmediate", "handleEvent", "onMessage"}

InitWebhook == Empty /\ watch = WebhookEffects

NextWebhook ==
  \/ WebhookStart
  \/ WebhookStop
  \/ \E req \in Requests :
       \E outcome \in (IF UrlParses(req.url) THEN {"survive"} ELSE {"exit", "survive"}) :
          Request(req, outcome)
  \/ \E job \in BagToSet(webhook.immediates), throws \in BOOLEAN,
        outcome \in {"exit", "survive"} : Immediate(job, throws, outcome)

SpecWebhook == InitWebhook /\ [][NextWebhook]_vars

(***************************************************************************)
(* SpecDispatch: one event (type and payload) handed to the dispatch of    *)
(* the socket runtime and to the handler of the webhook transport.         *)
(***************************************************************************)
\* event types of a dispatch; payloads: undefined (NULL) or a message with this id
EventTypes ==
  {"READY", "AT_MESSAGE_CREATE", "DIRECT_MESSAGE_CREATE", "MESSAGE_CREATE", "RESUMED",
   "GUILD_CREATE"}
EventData == {NULL, 1, 2, 3}

\* the onMessage calls among the effects: <<isDirect, message>>
RECURSIVE OnMessageCalls(_)
OnMessageCalls(effects) ==
  IF effects = <<>> THEN <<>>
  ELSE (IF Head(effects).ev = "onMessage"
        THEN <<<<Head(effects).what = "direct", Head(effects).n>>>> ELSE <<>>)
         \o OnMessageCalls(Tail(effects))

NotRun == [ran |-> FALSE, threw |-> FALSE, calls |-> <<>>]

\* QQChannelRuntime.handleDispatch(eventType, data) of the constructed runtime
SocketDispatch ==
  /\ ~probe.socket.ran
  /\ LET r == HandleDispatch(Begin, 1, probe.eventType, probe.data)
     IN Commit([r EXCEPT !.probe.socket =
                           [ran |-> TRUE, threw |-> FALSE, calls |-> OnMessageCalls(r.emitted)]])

\* WebhookHandler.handleEvent(eventType, eventContent)
WebhookDispatch ==
  /\ ~probe.webhook.ran
  /\ LET job == [eventType |-> probe.eventType,
                 d |-> IF probe.data = NULL THEN "undefined" ELSE "object",
                 id |-> probe.data, verified |-> FALSE, answered |-> 200]
         r == handleEvent(Begin, job, FALSE)
     IN Commit([r EXCEPT !.probe.webhook =
                           [ran |-> TRUE, threw |-> r.webhook.exception # "",
                            calls |-> OnMessageCalls(r.emitted)]])

\* a runtime and a webhook handler constructed with the same callbacks
InitDispatch ==
  /\ runtimes = <<NewRuntime("default", 1)>>
  /\ clients = <<NewClient>>
  /\ cachedAccessToken = NULL
  /\ activeRuntimes = [a \in Accounts |-> 1]
  /\ apiClients = [a \in Accounts |-> 1]
  /\ handles = {}
  /\ timers = EmptyBag
  /\ intervals = EmptyBag
  /\ calls = EmptyBag
  /\ clock = 0
  /\ emitted = <<>>
  /\ history = <<NewHistory>>
  /\ webhook = NoWebhook
  /\ probe \in [eventType : EventTypes, data : EventData, socket : {NotRun}, webhook : {NotRun}]
  /\ watch = {"onMessage", "onReady"}

NextDispatch ==
  \/ SocketDispatch
  \/ WebhookDispatch

SpecDispatch == InitDispatch /\ [][NextDispatch]_vars

(***************************************************************************)
(* SpecSession: one account on the socket transport through connections:   *)
(* Hello, READY, message and Reconnect frames with sequence numbers, the    *)
(* heartbeat timer, closes, reconnects with their token refresh, the stop  *)
(* handle. The frames sent are recorded.                                   *)
(***************************************************************************)
SessionPayloads ==
  [op : {OpHello}, s : {NULL}, t : {""}, d : {30000, 41250}]
    \cup [op : {OpDispatch}, s : {2}, t : {"READY"}, d : SessionIds]
    \cup [op : {OpDispatch}, s : {1}, t : {"AT_MESSAGE_CREATE"}, d : {0}]
    \cup [op : {OpReconnect}, s : {NULL}, t : {""}, d : {0}]

InitSession == Empty /\ watch = {"send", "onReady"}

NextSession ==
  \/ \E a \in Accounts : Len(runtimes) = 0 /\ StartAccount(a, TRUE, "websocket")
  \/ \E h \in handles : StopHandle(h)
  \/ \E call \in BagToSet(calls), tok \in Tokens : TokenGranted(call, tok, 120)
  \/ \E call \in BagToSet(calls) : TokenRejected(call)
  \/ \E call \in BagToSet(calls) : GatewayAnswered(call, 5, 1000)
  \/ \E i \in DOMAIN runtimes : \E src \in Sockets(i) : SocketOpen(i, src)
  \/ \E i \in DOMAIN runtimes : \E src \in Sockets(i), p \in SessionPayloads : SocketMessage(i, src, p)
  \/ \E i \in DOMAIN runtimes : \E src \in Sockets(i) : SocketClose(i, src, 1006)
  \/ \E t \in BagToSet(timers) : ReconnectTimer(t)
  \/ \E t \in BagToSet(intervals) : HeartbeatTick(t)

SpecSession == InitSession /\ [][NextSession]_vars

\* SpecSession with the record of what each connection has seen and what each
\* refresh has obtained
InitSessionHistory == Empty /\ watch = {"send", "onReady", "history"}

SpecSessionHistory == InitSessionHistory /\ [][NextSession]_vars

(***************************************************************************)
(* SpecFrames: SpecSession with the frames arriving as text, some of them  *)
(* no JSON.                                                                *)
(***************************************************************************)
\* the text of a payload
FrameText(p) ==
  <<p.op, p.s, CHOOSE n \in DOMAIN FrameTypes : FrameTypes[n] = p.t, p.d>>

\* texts that do not parse (empty, "{", two units) and the text null
BadFrames == {<<>>, <<123>>, <<123, 34>>, <<110>>}

Frames == {FrameText(p) : p \in SessionPayloads} \cup BadFrames

InitFrames == Empty /\ watch = {"send", "onReady", "onMessage", "onError", "console.error"}

NextFrames ==
  \/ \E a \in Accounts : Len(runtimes) = 0 /\ StartAccount(a, TRUE, "websocket")
  \/ \E h \in handles : StopHandle(h)
  \/ \E call \in BagToSet(calls) : TokenGranted(call, 1, 120)
  \/ \E call \in BagToSet(calls) : TokenRejected(call)
  \/ \E call \in BagToSet(calls) : GatewayAnswered(call, 5, 1000)
  \/ \E i \in DOMAIN runtimes : \E src \in Sockets(i) : SocketOpen(i, src)
  \/ \E i \in DOMAIN runtimes : \E src \in Sockets(i), data \in Frames : SocketFrame(i, src, data)
  \/ \E i \in DOMAIN runtimes : \E src \in Sockets(i) : SocketClose(i, src, 1006)
  \/ \E t \in BagToSet(timers) : ReconnectTimer(t)
  \/ \E t \in BagToSet(intervals) : HeartbeatTick(t)

SpecFrames == InitFrames /\ [][NextFrames]_vars

(***************************************************************************)
(* SpecTwoAccounts: two accounts, each with its own credentials and client,*)
(* started once with the socket transport; their starts, Hellos, closes    *)
(* and reconnects interleave.                                              *)
(***************************************************************************)
TwoAccounts == {"default", "work"}

\* the token the issuance endpoint issues for the appId/appSecret of client c
IssuedFor(c) == c

HelloAndReconnect ==
  {p \in Payloads : p.op \in {OpHello, OpReconnect}}

InitTwoAccounts ==
  /\ runtimes = <<>>
  /\ clients = <<>>
  /\ cachedAccessToken = NULL
  /\ activeRuntimes = [a \in TwoAccounts |-> NULL]
  /\ apiClients = [a \in TwoAccounts |-> NULL]
  /\ handles = {}
  /\ timers = EmptyBag
  /\ intervals = EmptyBag
  /\ calls = EmptyBag
  /\ clock = 0
  /\ emitted = <<>>
  /\ history = <<>>
  /\ webhook = NoWebhook
  /\ probe = <<>>
  /\ watch = {"send"}

NextTwoAccounts ==
  \/ \E a \in TwoAccounts : activeRuntimes[a] = NULL /\ StartAccount(a, TRUE, "websocket")
  \/ \E call \in BagToSet(calls) : TokenGranted(call, IssuedFor(call.c), 120)
  \/ \E call \in BagToSet(calls) : GatewayAnswered(call, 5, 1000)
  \/ \E i \in DOMAIN runtimes : \E src \in Sockets(i) : SocketOpen(i, src)
  \/ \E i \in DOMAIN runtimes : \E src \in Sockets(i), p \in HelloAndReconnect : SocketMessage(i, src, p)
  \/ \E i \in DOMAIN runtimes : \E src \in Sockets(i) : SocketClose(i, src, 1006)
  \/ \E t \in BagToSet(timers) : ReconnectTimer(t)

SpecTwoAccounts == InitTwoAccounts /\ [][NextTwoAccounts]_vars

(***************************************************************************)
(* SpecTerminal: startAccount called again and again for an account whose  *)
(* transport may fail terminally: the session quota exhausted, a fatal     *)
(* close code, the retry budget used up.                                   *)
(***************************************************************************)
InitTerminal == Empty /\ watch = {"startAccount", "construct", "return", "onError"}

NextTerminal ==
  \/ \E a \in Accounts : StartAccount(a, TRUE, "websocket")
  \/ \E h \in handles : StopHandle(h)
  \/ \E call \in BagToSet(calls) : TokenGranted(call, 1, 120)
  \/ \E call \in BagToSet(calls) : TokenRejected(call)
  \/ \E call \in BagToSet(calls), r \in Remaining : GatewayAnswered(call, r, 1000)
  \/ \E i \in DOMAIN runtimes : \E src \in Sockets(i) : SocketOpen(i, src)
  \/ \E i \in DOMAIN runtimes : \E src \in Sockets(i), code \in CloseCodes : SocketClose(i, src, code)
  \/ \E t \in BagToSet(timers) : ReconnectTimer(t)

SpecTerminal == InitTerminal /\ [][NextTerminal]_vars

(***************************************************************************)
(* SpecBudget: one instance and everything that moves its attempt counter: *)
(* failed starts, closes, InvalidSession frames and their timers, READY,   *)
(* stop.                                                                   *)
(***************************************************************************)
BudgetPayloads ==
  {p \in Payloads : p.t = "READY" \/ p.op = OpInvalidSession}

InitBudget == Empty /\ watch = {"onError"}

NextBudget ==
  \/ \E a \in Accounts : Len(runtimes) = 0 /\ StartAccount(a, TRUE, "websocket")
  \/ \E h \in handles : StopHandle(h)
  \/ \E call \in BagToSet(calls) : TokenGranted(call, 1, 120)
  \/ \E call \in BagToSet(calls) : TokenRejected(call)
  \/ \E call \in BagToSet(calls) : GatewayAnswered(call, 5, 1000)
  \/ \E i \in DOMAIN runtimes : \E src \in Sockets(i) : SocketOpen(i, src)
  \/ \E i \in DOMAIN runtimes : \E src \in Sockets(i), p \in BudgetPayloads : SocketMessage(i, src, p)
  \/ \E i \in DOMAIN runtimes : \E src \in Sockets(i) : SocketClose(i, src, 1006)
  \/ \E t \in BagToSet(timers) : ReconnectTimer(t)
  \/ \E t \in BagToSet(timers) : InvalidSessionTimer(t)

SpecBudget == InitBudget /\ [][NextBudget]_vars

(***************************************************************************)
(* SpecSeed: deriveSeed run statement by statement, for the empty secret,  *)
(* short secrets and secrets of 32 and 33 units. A pass of the while loop  *)
(* is a step; the engine runs the function to its end if it has one.       *)
(***************************************************************************)
SeedSecrets ==
  {<<>>} \cup Secrets \cup {[k \in 1..32 |-> 97], [k \in 1..33 |-> 97]}

\* let seed = botSecret
SeedCall ==
  /\ probe.pc = "call"
  /\ Commit([Begin EXCEPT !.probe.seed = probe.botSecret, !.probe.pc = "while"])

\* while (seed.length < 32) seed = seed + seed
SeedLoop ==
  /\ probe.pc = "while"
  /\ Len(probe.seed) < 32
  /\ Commit([Begin EXCEPT !.probe.seed = probe.seed \o probe.seed])

\* return new TextEncoder().encode(seed.slice(0, 32))
SeedReturn ==
  /\ probe.pc = "while"
  /\ Len(probe.seed) >= 32
  /\ Commit([Begin EXCEPT !.probe.result = TextEncode(SubSeq(probe.seed, 1, 32)),
                          !.probe.pc = "return"])

InitSeed ==
  /\ NoAccounts
  /\ webhook = NoWebhook
  /\ probe \in [botSecret : SeedSecrets, seed : {<<>>}, pc : {"call"}, result : {<<>>}]
  /\ watch = {}

NextSeed == SeedCall \/ SeedLoop \/ SeedReturn

SpecSeed == InitSeed /\ [][NextSeed]_vars /\ WF_vars(NextSeed)

(***************************************************************************)
(* Claims                                                                  *)
(***************************************************************************)
\* the sockets of a runtime that are not closed yet
SocketCount(r) ==
  (IF r.ws \in LiveStates THEN 1 ELSE 0) + BagCardinality(r.orphans)

\* the step opens a socket for instance i
OpensSocket(i) == SocketCount(runtimes'[i]) > SocketCount(runtimes[i])

\* the step sends a request for instance i, or arms a timer for it
StartsCall(i) ==
  \E x \in BagToSet(calls') : x.i = i /\ CopiesIn(x, calls') > CopiesIn(x, calls)

ArmsTimer(i) ==
  \E x \in BagToSet(timers') : x.i = i /\ CopiesIn(x, timers') > CopiesIn(x, timers)

\* the step makes instance i call back with one of the events evs
Delivers(i, evs) ==
  \E n \in 1..Len(emitted') : emitted'[n].i = i /\ emitted'[n].ev \in evs

\* the step makes instance i report the error what through onError
Reports(i, what) ==
  \E n \in 1..Len(emitted') :
     emitted'[n].i = i /\ emitted'[n].ev = "onError" /\ emitted'[n].what = what

\* the timers of the bag that belong to instance i
TimersOf(bag, i) == {x \in BagToSet(bag) : x.i = i}

\* the token fetches of client c that are in flight
TokenFetches(c) ==
  LET mine == {x \in BagToSet(calls) : x.k \in TokenCalls /\ x.c = c}
  IN BagCardinality([x \in mine |-> CopiesIn(x, calls)])

\* instance i has been stopped and its account has been started again
C1_Restarted(i) ==
  /\ runtimes[i].isClosing
  /\ activeRuntimes[runtimes[i].accountId] \notin {NULL, i}

\* C1: after the stop handle has resolved and startAccount has been called again for
\* the account, the prior instance opens no socket, starts no heartbeat, arms no
\* reconnect timer and delivers no onMessage/onReady, whatever it was awaiting when
\* it was stopped.
C1_PriorInstanceInactive ==
  [][\A i \in DOMAIN runtimes :
       C1_Restarted(i) =>
         /\ ~OpensSocket(i)
         /\ runtimes'[i].heartbeatInterval = NULL
         /\ ~ArmsTimer(i)
         /\ ~Delivers(i, {"onMessage", "onReady"})]_vars

\* every instance that has not been stopped is the one registered for its account
C2_OnePerAccount ==
  \A i \in DOMAIN runtimes :
     ~runtimes[i].isClosing => activeRuntimes[runtimes[i].accountId] = i

C2_NoOp(mode) ==
  /\ UNCHANGED <<runtimes, clients, activeRuntimes, apiClients, calls, timers, intervals, handles>>
  /\ emitted' = <<Ev("startAccount", 0, mode, 0), Ev("return", 0, "null", 0)>>

\* C2: while an account id is recorded as running, a startAccount call for it
\* returns null and constructs nothing, also while the first call still awaits
\* runtime.start(); no account has two instances that are not stopped.
C2_Idempotent ==
  /\ []C2_OnePerAccount
  /\ [][\A a \in Accounts, configured \in BOOLEAN, mode \in Modes :
          (activeRuntimes[a] # NULL /\ StartAccount(a, configured, mode)) => C2_NoOp(mode)]_vars

\* C2 witness: startAccount has returned null while the first call for the account
\* is still inside runtime.start(), awaiting an answer
C2_Witness ==
  /\ Len(emitted) = 2
  /\ emitted[2] = Ev("return", 0, "null", 0)
  /\ Len(runtimes) = 1
  /\ \E call \in BagToSet(calls) : call.top

C3_TornDown(i) ==
  /\ runtimes'[i].heartbeatInterval = NULL
  /\ TimersOf(intervals', i) = {}
  /\ TimersOf(timers', i) = {}
  /\ SocketCount(runtimes'[i]) = 0
  /\ runtimes'[i].sessionId = NULL
  /\ runtimes'[i].lastSequence = NULL

\* C3: when stop() resolves, the heartbeat timer is cancelled, no reconnect timer is
\* pending, no socket of the instance is still open or closing, and sessionId and
\* lastSequence are null.
C3_TeardownComplete ==
  [][\A h \in handles :
       LET i == activeRuntimes[runtimes[h].accountId]
       IN (i # NULL /\ StopHandle(h)) => C3_TornDown(i)]_vars

\* the transport the connection mode asks for
C4_TransportFor(mode) ==
  IF mode = "webhook" THEN "WebhookServer" ELSE "QQChannelRuntime"

\* C4: the transport startAccount constructs is the one the account's connection
\* mode asks for: WebhookServer for webhook, the socket runtime for websocket or unset.
C4_TransportByMode ==
  \A n \in 1..Len(emitted) :
     emitted[n].ev = "construct" =>
       /\ n > 1
       /\ emitted[1].ev = "startAccount"
       /\ emitted[n].what = C4_TransportFor(emitted[1].what)

\* C5: concurrent getAccessToken calls of one account that need a refresh are
\* coalesced: at most one issuance request is in flight per client at any time.
C5_SingleFlight == \A c \in DOMAIN clients : TokenFetches(c) <= 1

C6_Cached(c) ==
  /\ clients[c].accessToken # NULL
  /\ clients[c].tokenExpiresAt - clock > 60000

C6_Call(c, forceRefresh) ==
  IF ~forceRefresh /\ C6_Cached(c)
  THEN /\ calls' = calls
       /\ clients' = clients
       /\ emitted' = <<Ev("return", 0, "token", clients[c].accessToken)>>
  ELSE /\ BagCardinality(calls') = BagCardinality(calls) + 1
       /\ TokenFetches(c)' = TokenFetches(c) + 1
       /\ clients' = clients
       /\ emitted' = <<>>

C6_Answer(call, access_token, expires_in) ==
  /\ calls' = calls (-) One(call)
  /\ clients'[call.c].accessToken = access_token
  /\ clients'[call.c].tokenExpiresAt = call.now + 1000 * expires_in
  /\ emitted' = <<Ev("return", 0, "token", access_token)>>

\* C6: getAccessToken(forceRefresh) returns the cached token without a request exactly
\* when forceRefresh is false, a token is cached and its expiry is more than 60 s after
\* now; in every other case it sends one issuance request, and when that is answered
\* it stores the new value with expiry = now + expires_in (now: the time of the call)
\* and returns the new value.
C6_CacheOrRefresh ==
  [][/\ \A forceRefresh \in BOOLEAN :
          GetAccessToken(1, forceRefresh) => C6_Call(1, forceRefresh)
     /\ \A call \in BagToSet(calls), tok \in Tokens, e \in ExpiresIn :
          (call.k = "api.token" /\ TokenGranted(call, tok, e)) => C6_Answer(call, tok, e)]_vars

\* C6 witness: a token cached at time 0 for 120 s has been returned from the cache one
\* tick later, with no request in flight
C6_Witness ==
  /\ clock = TickMs
  /\ clients[1].tokenExpiresAt = 120000
  /\ calls = EmptyBag
  /\ emitted = <<Ev("return", 0, "token", clients[1].accessToken)>>

\* what scheduleReconnect has to do for instance i after a failed start()
C7_HandedOver(i) ==
  LET r == runtimes[i]
      failed == Ev("onError", i, "start", 0)
  IN IF r.isClosing \/ r.isFatalError
     THEN timers' = timers /\ emitted' = <<failed>>
     ELSE IF r.reconnectAttempts >= 5
     THEN timers' = timers /\ emitted' = <<failed, Ev("onError", i, "max", 0)>>
     ELSE /\ \E t \in BagToSet(timers') :
               /\ t.k = "reconnect" /\ t.i = i
               /\ timers' = timers (+) One(t)
          /\ runtimes'[i].reconnectAttempts = r.reconnectAttempts + 1
          /\ emitted' = <<failed>>

\* C7: when the issuance request of a start() is rejected or fails, the failure
\* reaches start() after that one request (no other request goes out), the cached
\* token and its expiry are unchanged, start() opens no socket, reports the
\* failure and hands over to the reconnect scheduler.
C7_TokenFailure ==
  [][\A call \in BagToSet(calls) :
       (call.k \in {"start.token", "start.gw.token"} /\ TokenRejected(call)) =>
          /\ calls' = calls (-) One(call)
          /\ clients' = clients
          /\ ~OpensSocket(call.i)
          /\ C7_HandedOver(call.i)]_vars

\* C7 witness: the first start() has failed at the token request (no token was ever
\* cached): no socket, the failure reported, one reconnect timer armed
C7_Witness ==
  /\ Len(runtimes) = 1
  /\ clients[1].accessToken = NULL
  /\ emitted = <<Ev("onError", 1, "start", 0)>>
  /\ runtimes[1].ws = "NULL"
  /\ runtimes[1].reconnectAttempts = 1
  /\ calls = EmptyBag
  /\ TimersOf(timers, 1) # {}

\* C8: after a close with a fatal code has reached the instance, the instance
\* opens no socket, sends no token or gateway request, arms no reconnect timer and
\* delivers no onReady/onMessage, whatever was pending or in flight at the close.
C8_FatalIsTerminal ==
  [][\A i \in DOMAIN runtimes :
       history[i].fatalClose =>
         /\ ~OpensSocket(i)
         /\ ~StartsCall(i)
         /\ ~ArmsTimer(i)
         /\ ~Delivers(i, {"onReady", "onMessage"})]_vars

\* C9: when the gateway reports remaining = 0, start() opens no socket, reports the
\* error with the reset time through onError, and schedules no reconnect, in the
\* first start() and in a start() that a reconnect made.
C9_QuotaExhausted ==
  [][\A call \in BagToSet(calls), ra \in ResetAfter :
       (call.k = "start.gw" /\ GatewayAnswered(call, 0, ra)) =>
          /\ ~OpensSocket(call.i)
          /\ emitted' = <<Ev("onError", call.i, "quota", clock + ra)>>
          /\ timers' = timers
          /\ calls' = calls (-) One(call)
          /\ runtimes'[call.i].reconnectAttempts = runtimes[call.i].reconnectAttempts]_vars

\* C9 witness: a start() made by the first reconnect has met remaining = 0
C9_Witness ==
  /\ Len(runtimes) = 1
  /\ runtimes[1].reconnectAttempts = 1
  /\ runtimes[1].isFatalError
  /\ ~history[1].fatalClose
  /\ runtimes[1].ws = "NULL"
  /\ timers = EmptyBag
  /\ emitted = <<Ev("onError", 1, "quota", clock + 1000)>>

\* C10: once 'Max reconnect attempts reached' has been reported, and as long as no
\* READY arrives, it is not reported again and the instance dials no socket.
C10_GivesUpOnce ==
  [][\A i \in DOMAIN runtimes :
       (history[i].gaveUp /\ history'[i].gaveUp) =>
          /\ ~Reports(i, "max")
          /\ ~OpensSocket(i)]_vars

\* min(5000 * 2^(attempt-1), 300000)
C11_Delay(attempt) ==
  IF 5000 * 2 ^ (attempt - 1) < 300000 THEN 5000 * 2 ^ (attempt - 1) ELSE 300000

\* the step arms exactly one reconnect timer for instance i, with the delay of the
\* attempt counter after its increment
C11_OneReconnect(i) ==
  /\ runtimes'[i].reconnectAttempts = runtimes[i].reconnectAttempts + 1
  /\ timers' = timers (+) One([k |-> "reconnect", i |-> i,
                                delay |-> C11_Delay(runtimes'[i].reconnectAttempts)])

RECURSIVE C19_Doubled(_)
C19_Doubled(secret) ==
  IF Len(TextEncode(secret)) < 32 THEN C19_Doubled(secret \o secret) ELSE secret

\* C19: for every secret the derived seed has exactly 32 bytes and is the first 32
\* bytes of the UTF-8 encoding of the secret doubled until that encoding has at
\* least 32 bytes.
C19_SeedIs32Bytes ==
  probe.f = "deriveSeed" =>
     /\ Len(probe.result) = 32
     /\ probe.result = SubSeq(TextEncode(C19_Doubled(probe.botSecret)), 1, 32)

\* C20: signCallbackResponse(eventTs, plainToken, S) returns a signature, the same
\* for the same arguments, and verifySignature accepts it under the key derived from
\* S for the message eventTs + plainToken.
C20_SignThenVerify ==
  probe.f = "signCallbackResponse" =>
     /\ probe.result # THROWN
     /\ probe.result = signCallbackResponse(probe.eventTs, probe.plainToken, probe.botSecret)
     /\ verifySignature(probe.result, probe.eventTs, probe.plainToken, probe.botSecret)


\* the last step handled a request that was a POST to the configured path
Posted ==
  /\ webhook.step = "request"
  /\ webhook.request.method = "POST"
  /\ UrlParses(webhook.request.url)
  /\ Pathname(webhook.request.url) = expectedPath

\* the payload of the request the last step handled
Payload == JsonParse(webhook.request.body)

\* the last step did ev
Did(ev) == \E n \in 1..Len(emitted) : emitted[n].ev = ev

\* the last step answered with this status and text
Answered(status, text) ==
  webhook.response = [NoResponse EXCEPT !.status = status, !.text = text]

\* the signature header is the hex form of an Ed25519 signature of timestamp + body
\* under the key of the bot secret
C12_ValidSignature(req) ==
  req.signature = bytesToHex(hexToBytes(req.signature))
    /\ hexToBytes(req.signature) =
         EdSign(TextEncode(req.timestamp \o req.body), deriveSeed(appSecret))

C12_InvalidDispatch ==
  /\ Posted
  /\ Payload.json = "object"
  /\ Payload.op = 0
  /\ webhook.request.signature # <<>>
  /\ ~C12_ValidSignature(webhook.request)

C12_Rejected ==
  /\ Answered(401, "Invalid signature")
  /\ ~Did("handleDispatch")
  /\ ~Did("setImmediate")

C13_DeliveredIsVerified ==
  (webhook.step = "immediate" /\ Did("onMessage")) => webhook.ran.verified

\* the request was acknowledged and its handler call queued, in this order, and the
\* handler has not run
C14_Acknowledged ==
  /\ Len(emitted) >= 2
  /\ emitted[Len(emitted) - 1] = Ev("respond", 0, "ok", 200)
  /\ emitted[Len(emitted)] = Ev("setImmediate", 0, Payload.t, 0)
  /\ Answered(200, "ok")
  /\ ~Did("handleEvent")
  /\ ~Did("onMessage")

\* C14: a dispatch request with an event type is acknowledged with 200 before its
\* handler runs, the handler runs in a later step of its own, and a handler that
\* fails leaves the listener as it was, so that later requests are answered as before.
C14_AckThenHandle ==
  /\ (Posted /\ Did("handleDispatch") /\ Payload.t # "") => C14_Acknowledged
  /\ webhook.step = "immediate" =>
       /\ webhook.ran.answered = 200
       /\ ~Did("respond")
       /\ webhook.exception # "" => webhook.server # "DOWN"

C15_Signature(event_ts, plain_token) ==
  bytesToHex(EdSign(TextEncode(event_ts \o plain_token), deriveSeed(appSecret)))

\* C15: a request with op 13 is answered 400 when plain_token or event_ts is missing
\* (also when d is missing), and else 200 with the plain_token received and the hex
\* signature of event_ts + plain_token; no signature header is looked at and no
\* event is queued.
C15_UrlValidation ==
  (Posted /\ Payload.json = "object" /\ Payload.op = 13) =>
     /\ IF Payload.plain_token = <<>> \/ Payload.event_ts = <<>>
        THEN webhook.response.status = 400
        ELSE webhook.response =
               [status |-> 200, text |-> "", plain_token |-> Payload.plain_token,
                signature |-> C15_Signature(Payload.event_ts, Payload.plain_token)]
     /\ ~Did("verifySignature")
     /\ ~Did("setImmediate")

\* C16: a request that is no POST, or whose path is not the configured path, is
\* answered 404 with nothing else done (no parse, no signature check, no event); a
\* POST to the configured path is never answered 404.
C16_NotFound ==
  webhook.step = "request" =>
     IF Posted
     THEN webhook.response.status # 404
     ELSE /\ Answered(404, "Not found")
          /\ emitted = <<Ev("respond", 0, "Not found", 404)>>

\* the last step handled a POST to the path whose body is no JSON
C17_Malformed == Posted /\ Payload.json = "SyntaxError"

C17_Answered400 ==
  C17_Malformed =>
     /\ Answered(400, "Invalid JSON")
     /\ emitted = <<Ev("JSON.parse", 0, "", 0), Ev("respond", 0, "Invalid JSON", 400)>>
     /\ webhook.exception = ""
     /\ webhook.server = "LISTENING"

\* C17: a POST to the webhook path whose body is no JSON is answered 400 right after
\* the parse (no opcode is handled, no signature checked, no event queued), and the
\* listener and the queued handler calls are as they were before the request.
C17_MalformedJson ==
  /\ []C17_Answered400
  /\ [][C17_Malformed' =>
          /\ webhook'.server = webhook.server
          /\ webhook'.immediates = webhook.immediates]_vars

\* C17 witness: a body that is no JSON, sent with signature headers while a handler
\* call of an earlier request is still queued, has been answered 400
C17_Witness ==
  /\ webhook.step = "request"
  /\ webhook.request = Post(<<123>>, Garbage, Timestamp)
  /\ webhook.response.status = 400
  /\ webhook.immediates # EmptyBag
  /\ webhook.server = "LISTENING"

\* C18: an exception thrown while a request is processed, or by the event handler of
\* a dispatch, leaves the listener up, and the request is answered 500.
C18_ExceptionAnswered500 ==
  webhook.exception # "" =>
     /\ webhook.server # "DOWN"
     /\ webhook.step = "request" => Answered(500, "Internal server error")
     /\ webhook.step = "immediate" => webhook.ran.answered = 500

\* C21: for every event type and payload the socket transport and the webhook
\* transport make the same onMessage calls (both none, or both one call with the
\* same message and isDirect), and isDirect is true only for DIRECT_MESSAGE_CREATE.
C21_SameEventStream ==
  (probe.socket.ran /\ probe.webhook.ran) =>
     /\ probe.socket.calls = probe.webhook.calls
     /\ ~probe.webhook.threw
     /\ \A n \in 1..Len(probe.socket.calls) :
          probe.socket.calls[n][1] => probe.eventType = "DIRECT_MESSAGE_CREATE"

\* C22: onError is called only for the terminal conditions (a fatal close code, the
\* session quota exhausted, the retry budget exhausted), never for a failure that
\* a scheduled reconnect follows.
C22_OnErrorOnlyTerminal ==
  \A n \in 1..Len(emitted) :
     emitted[n].ev = "onError" => emitted[n].what \in {"fatal", "quota", "max"}

C23_SessionCleared(i) ==
  /\ runtimes'[i].sessionId = NULL
  /\ runtimes'[i].lastSequence = NULL

\* C23: every disconnect of the socket of an instance (its close event with a fatal
\* or a transient code, a Reconnect frame, an InvalidSession frame) leaves sessionId
\* and lastSequence null.
C23_SessionEndsWithConnection ==
  [][\A i \in DOMAIN runtimes : \A src \in Sockets(i) :
       /\ \A code \in CloseCodes :
            (src[1] = "ws" /\ SocketClose(i, src, code)) => C23_SessionCleared(i)
       /\ \A p \in RuntimePayloads :
            (p.op \in {OpReconnect, OpInvalidSession} /\ src[1] = "ws" /\ SocketMessage(i, src, p))
               => C23_SessionCleared(i)]_vars

\* C24: a frame handled on the socket of an instance never lowers lastSequence,
\* also when it carries a sequence number below the current one.
C24_SequenceMonotonic ==
  [][\A i \in DOMAIN runtimes : \A src \in Sockets(i), p \in SessionPayloads :
       (src[1] = "ws" /\ runtimes[i].lastSequence # NULL /\ SocketMessage(i, src, p))
          => runtimes'[i].lastSequence >= runtimes[i].lastSequence]_vars

HeartbeatCount(bag, i) ==
  LET mine == TimersOf(bag, i)
  IN BagCardinality([x \in mine |-> CopiesIn(x, bag)])

C26_AtMostOne ==
  \A i \in DOMAIN runtimes :
     /\ HeartbeatCount(intervals, i) <= 1
     /\ HeartbeatCount(intervals, i) = 1 <=> runtimes[i].heartbeatInterval # NULL

\* C26: an instance has at most one active heartbeat timer in every reachable state;
\* a Hello (also a repeated one, also after a reconnect) leaves exactly the timer it
\* started, and a close event, a reconnect and stop leave none.
C26_OneHeartbeatTimer ==
  /\ []C26_AtMostOne
  /\ [][/\ \A i \in DOMAIN runtimes : \A src \in Sockets(i) :
             /\ \A p \in SessionPayloads :
                  \/ CASE p.op = OpHello ->
                            /\ HeartbeatCount(intervals', i) = 1
                            /\ runtimes'[i].heartbeatInterval = p.d
                       [] p.op = OpReconnect -> HeartbeatCount(intervals', i) = 0
                       [] OTHER -> intervals' = intervals
                  \/ ~SocketMessage(i, src, p)
             /\ \/ HeartbeatCount(intervals', i) = 0
                \/ ~SocketClose(i, src, 1006)
        /\ \A t \in BagToSet(timers) :
             \/ HeartbeatCount(intervals', t.i) = 0
             \/ runtimes[t.i].isClosing
             \/ runtimes[t.i].isFatalError
             \/ ~ReconnectTimer(t)
        /\ \A h \in handles :
             LET i == activeRuntimes[runtimes[h].accountId]
             IN \/ i = NULL
                \/ HeartbeatCount(intervals', i) = 0
                \/ ~StopHandle(h)]_vars

\* C26 witness: a Hello on the same connection has replaced the timer of an earlier
\* Hello (lastSequence shows that READY came between them)
C26_Witness ==
  /\ Len(runtimes) = 1
  /\ runtimes[1].ws = "OPEN"
  /\ runtimes[1].orphans = EmptyBag
  /\ runtimes[1].reconnectAttempts = 0
  /\ runtimes[1].lastSequence = 2
  /\ runtimes[1].heartbeatInterval = 41250
  /\ intervals = One([i |-> 1, ms |-> 41250])
  /\ emitted = <<Ev("send", 1, "identify", cachedAccessToken)>>

\* the reconnect.token calls of instance i in flight
Refreshes(bag, i) ==
  LET mine == {c \in BagToSet(bag) : c.k = "reconnect.token" /\ c.i = i}
  IN BagCardinality([c \in mine |-> CopiesIn(c, bag)])

C27_Reconnects(i) ==
  \/ \E src \in Sockets(i), p \in SessionPayloads : p.op = OpReconnect /\ SocketMessage(i, src, p)
  \/ \E t \in BagToSet(timers) :
       t.i = i /\ ~runtimes[i].isClosing /\ ~runtimes[i].isFatalError /\ ReconnectTimer(t)

\* C27: a reconnect attempt issues a forced token refresh and dials nothing before the
\* refresh has completed, and an Identify sent after a refresh has completed carries
\* the token that the last refresh obtained, also when that refresh failed.
C27_IdentifyCarriesRefreshedToken ==
  [][\A i \in DOMAIN runtimes :
       /\ C27_Reconnects(i) =>
            /\ Refreshes(calls', i) = Refreshes(calls, i) + 1
            /\ runtimes'[i].ws = "NULL"
       /\ \A k \in DOMAIN emitted' :
            LET e == emitted'[k]
            IN (e.ev = "send" /\ e.i = i /\ e.what = "identify" /\ history[i].refreshed # NULL)
                  => e.n = history[i].refreshed]_vars

C28_BaseTimer(i) == [k |-> "reconnect", i |-> i, delay |-> baseReconnectDelay]

C29_MayBeReady(i) ==
  /\ runtimes[i].ws = "OPEN"
  /\ runtimes[i].sessionId # NULL
  /\ ~runtimes[i].isClosing

\* C29: a step calls onMessage of an instance only if the instance is in Ready when the
\* frame arrives, and only for a Dispatch frame of type AT_MESSAGE_CREATE or
\* DIRECT_MESSAGE_CREATE arriving on the socket of the current connection.
C29_OnMessageOnlyWhileReady ==
  [][\A i \in DOMAIN runtimes :
       /\ Delivers(i, {"onMessage"}) => C29_MayBeReady(i)
       /\ \A src \in Sockets(i), p \in RuntimePayloads :
            (Delivers(i, {"onMessage"}) /\ SocketMessage(i, src, p)) =>
               /\ p.op = OpDispatch
               /\ p.t \in {"AT_MESSAGE_CREATE", "DIRECT_MESSAGE_CREATE"}
               /\ src[1] = "ws"]_vars

\* the step hands instance i over to the reconnect scheduler: within the budget, and
\* unless stopped or failed fatally, the attempt is counted and a reconnect timer is
\* added to the timers before; nothing is dialed or requested by the step itself
C30_Scheduled(i, before) ==
  /\ calls' = calls
  /\ runtimes'[i].ws = runtimes[i].ws
  /\ IF \/ runtimes[i].isClosing
        \/ runtimes[i].isFatalError
        \/ runtimes[i].reconnectAttempts >= maxReconnectAttempts
     THEN /\ timers' = before
          /\ runtimes'[i].reconnectAttempts = runtimes[i].reconnectAttempts
     ELSE /\ runtimes'[i].reconnectAttempts = runtimes[i].reconnectAttempts + 1
          /\ \E d \in {baseReconnectDelay * 2 ^ k : k \in 0..(maxReconnectAttempts - 1)} :
               timers' = before (+) One([k |-> "reconnect", i |-> i, delay |-> d])

C30_InvalidSessionWaits ==
  \A i \in DOMAIN runtimes :
     /\ \A src \in Sockets(i), p \in RuntimePayloads :
          (p.op = OpInvalidSession /\ SocketMessage(i, src, p)) =>
             /\ runtimes'[i].sessionId = NULL
             /\ runtimes'[i].reconnectAttempts = runtimes[i].reconnectAttempts
             /\ calls' = calls
             /\ timers' = timers (+) One([k |-> "invalidSession", i |-> i, delay |-> 1000])
     /\ \A t \in BagToSet(timers) :
          (t.i = i /\ InvalidSessionTimer(t)) => C30_Scheduled(i, timers (-) One(t))

C30_ReconnectScheduled ==
  \A i \in DOMAIN runtimes : \A src \in Sockets(i), p \in RuntimePayloads :
     (p.op = OpReconnect /\ SocketMessage(i, src, p)) =>
        /\ runtimes'[i].sessionId = NULL
        /\ C30_Scheduled(i, timers)

\* C30: a Reconnect frame and an InvalidSession frame both clear sessionId and hand over
\* to the reconnect scheduler, the Reconnect frame at once and the InvalidSession frame
\* through a 1000 ms timer whose callback schedules unless the instance was stopped or
\* failed fatally; the redial that follows is counted and waits its backoff delay.
C30_FramesHandOverToScheduler ==
  [][C30_ReconnectScheduled /\ C30_InvalidSessionWaits]_vars

\* the request is well formed and asks for the generic acknowledgment: an opcode other
\* than 0 and 13, or a dispatch without event type
C31_Other ==
  /\ Posted
  /\ Payload.json = "object"
  /\ \/ Payload.op \notin {0, 13}
     \/ Payload.op = 0 /\ Payload.t = ""

\* C31: a well-formed request whose op is neither 0 nor 13, and a dispatch without event
\* type, is answered 200 with the generic acknowledgment and emits no event, whatever
\* its signature headers are.
C31_OtherOpcodesAcknowledged ==
  C31_Other =>
     /\ Answered(200, "ok")
     /\ ~Did("setImmediate")
     /\ ~Did("onMessage")


\* the request carries both signature headers and the signature is not valid
C31_BadSignature ==
  /\ webhook.request.signature # <<>>
  /\ webhook.request.timestamp # <<>>
  /\ ~C12_ValidSignature(webhook.request)

\* C31 with the signature check: a well-formed request whose op is neither 0 nor 13, and
\* a dispatch without event type, is answered 200 with the generic acknowledgment
\* unless it carries both signature headers and an invalid signature, which is answered
\* 401; in both cases it emits no event.
C31_AcknowledgedUnlessBadSignature ==
  C31_Other =>
     /\ IF C31_BadSignature THEN Answered(401, "Invalid signature") ELSE Answered(200, "ok")
     /\ ~Did("setImmediate")
     /\ ~Did("onMessage")

\* C31 witness: an op 11 request signed by the platform has been acknowledged
C31_Witness ==
  /\ webhook.step = "request"
  /\ webhook.request =
       Post(<<11, 0, 0, 0, 0>>, PlatformSignature(Timestamp, <<11, 0, 0, 0, 0>>), Timestamp)
  /\ emitted = <<Ev("JSON.parse", 0, "", 0), Ev("verifySignature", 0, "", 0),
                 Ev("respond", 0, "ok", 200)>>
  /\ Answered(200, "ok")


\* C32: a frame whose text does not parse is swallowed: the step leaves the sockets of
\* the instance, lastSequence, sessionId, the heartbeat timer and reconnectAttempts as
\* they were, schedules no reconnect, issues no request and calls none of onMessage,
\* onReady and onError.
C32_BadFrameSwallowed ==
  [][\A i \in DOMAIN runtimes : \A src \in Sockets(i), data \in BadFrames :
       \/ /\ runtimes' = runtimes
          /\ intervals' = intervals
          /\ timers' = timers
          /\ calls' = calls
          /\ emitted' = <<Ev("console.error", i, "parse", 0)>>
       \/ ~SocketFrame(i, src, data)]_vars

\* C32 witness: a frame that does not parse has arrived on the open socket of a
\* connection that had received Hello and READY
C32_Witness ==
  /\ Len(runtimes) = 1
  /\ runtimes[1].ws = "OPEN"
  /\ runtimes[1].sessionId = 1
  /\ runtimes[1].lastSequence = 2
  /\ runtimes[1].heartbeatInterval = 30000
  /\ runtimes[1].reconnectAttempts = 0
  /\ intervals = One([i |-> 1, ms |-> 30000])
  /\ timers = EmptyBag
  /\ calls = EmptyBag
  /\ emitted = <<Ev("console.error", 1, "parse", 0)>>


\* C33: with two accounts running socket transports, every Identify frame sent by an
\* instance carries a token issued for the credentials of the client of its own account.
C33_IdentifyCarriesOwnToken ==
  \A k \in DOMAIN emitted :
     (emitted[k].ev = "send" /\ emitted[k].what = "identify")
        => emitted[k].n = IssuedFor(runtimes[emitted[k].i].apiClient)


\* C34: an instance has no live socket besides this.ws: every socket it created is
\* this.ws, or closed, or at least asked to close before it was replaced.
C34_SingleLiveSocket ==
  \A i \in DOMAIN runtimes :
     \A st \in BagToSet(runtimes[i].orphans) : st \notin {"CONNECTING", "OPEN"}


\* the reconnects of instance i that are pending: reconnect timers set, and reconnect()
\* calls awaiting the token or the gateway in the start() they made
PendingReconnects(i) ==
  LET scheduled == {x \in BagToSet(timers) : x.k = "reconnect" /\ x.i = i}
      running == {c \in BagToSet(calls) : c.i = i /\ ~c.top}
  IN BagCardinality([x \in scheduled |-> CopiesIn(x, timers)])
       + BagCardinality([c \in running |-> CopiesIn(c, calls)])

\* C35: at most one reconnect is pending per instance; closing the old socket inside
\* reconnect() does not make the close event of that socket schedule another one.
C35_OneReconnectPending ==
  \A i \in DOMAIN runtimes : PendingReconnects(i) <= 1


\* the current socket of instance i is open and its heartbeat timer runs
C36_Beating(i) ==
  /\ runtimes[i].ws = "OPEN"
  /\ runtimes[i].heartbeatInterval # NULL
  /\ HeartbeatCount(intervals, i) = 1

\* C36: a close event or a frame of a superseded socket leaves the current connection
\* as it is: the socket stays open and its heartbeat timer stays active.
C36_SupersededSocketHarmless ==
  [][\A i \in DOMAIN runtimes : \A src \in Sockets(i) :
       (src[1] = "orphan" /\ C36_Beating(i)) =>
          /\ \/ runtimes'[i].ws = "OPEN" /\ HeartbeatCount(intervals', i) = 1
             \/ ~SocketClose(i, src, 1006)
          /\ \A p \in SessionPayloads :
               \/ runtimes'[i].ws = "OPEN" /\ HeartbeatCount(intervals', i) = 1
               \/ ~SocketMessage(i, src, p)]_vars


\* C37: a stop handle stops only the instance its startAccount call created: called
\* when another instance is registered for the account, it leaves that instance as it
\* is and registered.
C37_HandleStopsOwnInstance ==
  [][\A h \in handles :
       LET cur == activeRuntimes[runtimes[h].accountId]
       IN (cur \notin {NULL, h} /\ StopHandle(h)) =>
             /\ runtimes'[cur] = runtimes[cur]
             /\ activeRuntimes' = activeRuntimes
             /\ apiClients' = apiClients]_vars


\* instance i has failed terminally and nothing of it is left that could connect,
\* retry or deliver: no socket, no request in flight, no timer
C38_Dead(i) ==
  /\ runtimes[i].isFatalError \/ history[i].gaveUp
  /\ SocketCount(runtimes[i]) = 0
  /\ TimersOf(calls, i) = {}
  /\ TimersOf(timers, i) = {}
  /\ TimersOf(intervals, i) = {}

\* C38: an account is registered as running only while its transport can still connect,
\* retry or deliver, so startAccount for an account whose transport has failed
\* terminally constructs a fresh transport instead of returning null.
C38_RestartAfterTerminalFailure ==
  /\ [](\A a \in Accounts : activeRuntimes[a] # NULL => ~C38_Dead(activeRuntimes[a]))
  /\ [][\A a \in Accounts :
          LET i == activeRuntimes[a]
          IN (i # NULL /\ C38_Dead(i) /\ StartAccount(a, TRUE, "websocket")) =>
                /\ Len(runtimes') = Len(runtimes) + 1
                /\ activeRuntimes'[a] = Len(runtimes')]_vars


\* C39: reconnectAttempts of every instance stays within 0..maxReconnectAttempts (5), and
\* every reconnect timer set waits one of 5000, 10000, 20000, 40000, 80000 ms.
C39_AttemptsWithinBudget ==
  /\ maxReconnectAttempts = 5
  /\ \A i \in DOMAIN runtimes :
       /\ runtimes[i].reconnectAttempts >= 0
       /\ runtimes[i].reconnectAttempts <= maxReconnectAttempts
  /\ \A t \in BagToSet(timers) :
       t.k = "reconnect" => t.delay \in {5000, 10000, 20000, 40000, 80000}

\* C39 witness: the fifth reconnect is scheduled, 80000 ms ahead
C39_Witness ==
  /\ Len(runtimes) = 1
  /\ runtimes[1].reconnectAttempts = 5
  /\ timers = One([k |-> "reconnect", i |-> 1, delay |-> 80000])


\* C40: deriveSeed returns for every secret, also the empty one and one of 32 or more
\* units.
C40_DeriveSeedTerminates == <>(probe.pc = "return")

====
